---- MODULE Spec2Model ----
(***************************************************************************)
(* heimdallr: the coordinator (heimdallrd) and its clients.                *)
(*                                                                         *)
(* The model starts after registration: job_size clients hold a persistent *)
(* control connection to the coordinator, and run() has spawned one        *)
(* handle_client thread per rank, all sharing one Job and one              *)
(* std::sync::Barrier (thread_barrier) of job_size parties.                *)
(*                                                                         *)
(* A control connection is two FIFO byte streams; daemon_stream[r] holds   *)
(* what client r has written and its handler has not read yet, stream[r]   *)
(* what the coordinator has written to rank r and r has not read yet.      *)
(***************************************************************************)
EXTENDS Integers, Sequences, FiniteSets, TLC

\* ------------------------------------------------------------------ bounds
NumRanks == 3          \* job size N (run(): job_size)
MaxOps == 2            \* blocking API calls per rank in the free scenario
MaxEpochs == 2         \* barrier() calls per rank in the barrier scenario
MaxCycles == 1         \* lock / +1 / release cycles per rank in the counter scenario
MaxCalls == 3          \* collective calls per rank in the collectives scenario

U64Bytes == 8          \* bincode's fixed-width encoding of a u64

job_size == NumRanks   \* run(): the size the first registration carried
Ranks == 0 .. (job_size - 1)
Names == {"testmutex", "testmutex2"}    \* mutex names a client may use
StartValues == {0, 1}                   \* start values a client may pass
None == -1                              \* Option::None of a rank or stream

\* ------------------------------------------------------------- wire codec
\* bincode::serialize of a u64: U64Bytes bytes, least significant first.
RECURSIVE ToBytes(_, _)
ToBytes(v, k) == IF k = 0 THEN <<>> ELSE <<v % 256>> \o ToBytes(v \div 256, k - 1)

Serialize(v) == ToBytes(v, U64Bytes)

\* bincode::deserialize_from of a u64.
RECURSIVE Deserialize(_)
Deserialize(b) == IF b = <<>> THEN 0 ELSE Head(b) + 256 * Deserialize(Tail(b))

\* One packet of either direction; fields a variant does not carry are blank.
Pkt(kind, name, id, data) == [kind |-> kind, name |-> name, id |-> id, data |-> data]

MutexCreationPkt(name, id, serialized_data) == Pkt("MutexCreation", name, id, serialized_data)
MutexLockReqPkt(name, client_id) == Pkt("MutexLockReq", name, client_id, <<>>)
MutexWriteAndReleasePkt(mutex_name, data) == Pkt("MutexWriteAndRelease", mutex_name, None, data)
BarrierPkt(id, size) == Pkt("Barrier", "", id, <<>>)
MutexCreationReplyPkt(name) == Pkt("MutexCreationReply", name, None, <<>>)
BarrierReplyPkt(id) == Pkt("BarrierReply", "", id, <<>>)
FinalizePkt(id, size) == Pkt("Finalize", "", id, <<>>)
FinalizeReplyPkt(id) == Pkt("FinalizeReply", "", id, <<>>)
\* send_data writes the bare serialized value, not a DaemonReplyPkt.
RawData(data) == Pkt("raw", "", None, data)

\* Registration packets, and the peer-listener address of a client process.
ListenerAddr(c) == <<"listener", c>>
ClientRegistrationPkt(job, size, listener_addr) ==
    [kind |-> "ClientRegistration", job |-> job, size |-> size,
     listener_addr |-> listener_addr]
\* What else a new connection to the coordinator may carry: a DaemonPkt of
\* another variant, or bytes that are no DaemonPkt ("undecodable").
OtherPkt(kind) == [kind |-> kind, job |-> "", size |-> 0, listener_addr |-> <<>>]
ClientRegistrationReplyPkt(id, listeners) == [id |-> id, client_listeners |-> listeners]

VARIABLES
    scenario,       \* which client program runs (fixed by Init)
    \* ---- clients
    cpc,            \* [rank -> "idle" | "create" | "lock" | "barrier" | "panic"]
    carg,           \* [rank -> name of the mutex the pending create/lock is about]
    cobjs,          \* [rank -> names the rank holds a HeimdallrMutex object for]
    cheld,          \* [rank -> names whose HeimdallrMutexDataHandle is alive]
    cdata,          \* [rank -> [name -> HeimdallrMutex.data]]
    ops,            \* [rank -> blocking calls issued so far]
    \* ---- control connections
    daemon_stream,  \* [rank -> Seq(packet)] client to coordinator
    stream,         \* [rank -> Seq(packet)] coordinator to client
    \* ---- coordinator
    hpc,            \* [rank -> position of handle_client for that rank]
    hname,          \* [rank -> mutex_pkt.name of the creation being handled]
    tbwait,         \* [rank -> "no" | "blocked" | "released"] in thread_barrier.wait()
    tbcount,        \* thread_barrier: arrivals of the current generation
    barrier,        \* job.barrier: DaemonBarrier
    mutexes,        \* job.mutexes: name -> HeimdallrDaemonMutex (a partial map)
    \* ---- history
    bsent,          \* [rank -> Barrier packets sent]
    bret,           \* [rank -> returns from barrier()]
    brepl,          \* [rank -> BarrierReply packets written to the rank]
    csent,          \* [rank -> [name -> MutexCreation packets sent for the name]]
    crepl,          \* [rank -> [name -> MutexCreationReply packets written to the rank]]
    reqlog,         \* [name -> ranks in the order their MutexLockReq was processed]
    grantlog,       \* [name -> ranks in the order the value was written to them]
    incs,           \* [name -> +1 updates clients have made under the lock]
    initval         \* [name -> start value of the first creation processed, or None]

VARIABLES
    \* ---- run(): registration of the job
    run_pc,           \* position of run(): "accept" | "reply" | "join" | "exited",
                      \* "panicked" (the process aborted), "returned" (run() returned)
    incoming,         \* client_listener.incoming(): connections not accepted yet
    reg_pkt,          \* [process -> the ClientRegistrationPkt it sent, or None]
    job_name,         \* run(): job_name
    run_job_size,     \* run(): job_size
    clients,          \* run(): clients, the accepted streams (named by their process)
    client_listeners, \* run(): client_listeners
    job_threads,      \* run(): job_threads, the ids of the spawned handle_client threads
    reg_reply,        \* [process -> ClientRegistrationReplyPkt written to it, or None]
    registered,       \* [process -> id and client_listeners of its HeimdallrClient, or None]
    arrivals          \* history: the processes in the order they connected

VARIABLES
    \* ---- finalization
    finalize,         \* job.finalize: JobFinalization
    fsent,            \* history: [rank -> Finalize packets sent]
    frepl,            \* history: [rank -> FinalizeReply packets written to the rank]
    fret              \* history: [rank -> returns from drop() of the HeimdallrClient]

VARIABLES
    \* ---- peer-to-peer transfers between the clients
    peer_incoming,    \* [rank -> Seq(addr)] connections to its listener not accepted yet,
                      \* each named by the op_listener address of the send that made it
    lstream,          \* [rank -> the stream its listener has accepted and reads, or none]
    readers,          \* [rank -> [<<sender, tag>> -> <<addr>> or <<>>]] HeimdallrClient.readers
    sendops,          \* [rank -> Seq(send operation)] the sends of the rank, by operation number
    recvops,          \* [rank -> Seq(receive_nb operation)] the threads of receive_nb
    ppc,              \* [rank -> "idle" | "send" | "poll" | "recv" | "join"] main thread in the API
    parg,             \* [rank -> arguments of the pending receive or data()]
    handles,          \* [rank -> operation numbers whose NbDataHandle is alive]
    buf,              \* [rank -> the buffer of the program]
    pstep,            \* [rank -> calls of the program completed or under way]
    rlog,             \* history: [rank -> Seq(receive returned: source, tag, any, value)]
    nblog             \* history: [rank -> Seq(data() returned: operation, value)]

VARIABLES
    \* ---- discovery of the coordinator through its descriptor file
    env,              \* the environment: HOME, and XDG_CONFIG_HOME or none
    files,            \* the file system: path -> contents (a partial map)
    daemon,           \* the Daemon: name, partition, client_listener_addr, its position
    lookup            \* HeimdallrClient::init of one client: arguments, position, result

cvars == <<cpc, carg, cobjs, cheld, cdata, ops>>
nvars == <<daemon_stream, stream>>
hvars == <<hpc, hname, tbwait, tbcount, barrier, mutexes>>
gvars == <<bsent, bret, brepl, csent, crepl, reqlog, grantlog, incs, initval>>
rvars == <<run_pc, incoming, reg_pkt, job_name, run_job_size, clients, client_listeners,
           job_threads, reg_reply, registered, arrivals>>
fvars == <<finalize, fsent, frepl, fret>>
pvars == <<peer_incoming, lstream, readers, sendops, recvops, ppc, parg, handles, buf, pstep, rlog, nblog>>
dvars == <<env, files, daemon, lookup>>
jobvars == <<scenario, cvars, nvars, hvars, gvars, rvars, fvars>>
vars == <<scenario, cvars, nvars, hvars, gvars, rvars, fvars, pvars, dvars>>

\* ------------------------------------------------------- DaemonBarrier
DaemonBarrierNew(size) ==
    [size |-> size, streams |-> [i \in 0 .. (size - 1) |-> None], finished |-> FALSE]

\* Mutant: the negation of `finished` dropped.
BarrierRegisterClientInverted(b, id, s) ==
    LET streams == [b.streams EXCEPT ![id] = s]
    IN  [b EXCEPT !.streams = streams,
                  !.finished = \E i \in DOMAIN streams : streams[i] = None]

BarrierRegisterClient(b, id, s) ==
    LET streams == [b.streams EXCEPT ![id] = s]
    IN  [b EXCEPT !.streams = streams,
                  !.finished = ~(\E i \in DOMAIN streams : streams[i] = None)]

BarrierReset(b) ==
    [b EXCEPT !.streams = [i \in 0 .. (b.size - 1) |-> None], !.finished = FALSE]

\* ----------------------------------------------------- JobFinalization
JobFinalizationNew(size) ==
    [streams |-> [i \in 0 .. (size - 1) |-> None], finished |-> FALSE]

FinalizeRegisterClient(f, id, s) ==
    LET streams == [f.streams EXCEPT ![id] = s]
    IN  [f EXCEPT !.streams = streams,
                  !.finished = ~(\E i \in DOMAIN streams : streams[i] = None)]

\* ------------------------------------------------ HeimdallrDaemonMutex
DaemonMutexNew(name, size, start_data) ==
    [name |-> name, streams |-> [i \in 0 .. (size - 1) |-> None], constructed |-> FALSE,
     data |-> start_data, access_queue |-> <<>>, locked |-> FALSE, current_owner |-> None]

\* Mutant: constructed as soon as any rank has registered.
MutexRegisterClientAny(m, id, s) ==
    LET streams == [m.streams EXCEPT ![id] = s]
    IN  [m EXCEPT !.streams = streams,
                  !.constructed = \E i \in DOMAIN streams : streams[i] # None]

\* Mutant: a registration on a mutex that is already constructed counts as the
\* start of a new construction.
MutexRegisterClientOnce(m, id, s) ==
    LET streams == [m.streams EXCEPT ![id] = s]
    IN  [m EXCEPT !.streams = streams,
                  !.constructed = ~m.constructed /\ ~(\E i \in DOMAIN streams : streams[i] = None)]

MutexRegisterClient(m, id, s) ==
    LET streams == [m.streams EXCEPT ![id] = s]
    IN  [m EXCEPT !.streams = streams,
                  !.constructed = ~(\E i \in DOMAIN streams : streams[i] = None)]

\* The methods below return the mutex after the call and the writes the call
\* made: a sequence of [to |-> connection, data |-> bytes].
Result(m, writes) == [mutex |-> m, writes |-> writes]

\* Mutant: the data written to every registered connection, not to the owner's.
send_data_all(m) ==
    IF m.current_owner # None
    THEN LET to == {i \in DOMAIN m.streams : m.streams[i] # None}
             RECURSIVE Each(_)
             Each(S) == IF S = {} THEN <<>>
                        ELSE LET i == CHOOSE x \in S : \A y \in S : x <= y
                             IN  <<[to |-> m.streams[i], data |-> m.data]>> \o Each(S \ {i})
         IN  Each(to)
    ELSE <<>>

send_data(m) ==
    IF m.current_owner # None
    THEN IF m.streams[m.current_owner] # None
         THEN <<[to |-> m.streams[m.current_owner], data |-> m.data]>>
         ELSE <<>>      \* "No valid TcpStream found for client"
    ELSE <<>>           \* "Mutex has no current owner to send data"

\* Mutant: the test of `locked` dropped.
grant_next_lock_unchecked(m) ==
    IF m.access_queue # <<>>
    THEN LET g == [m EXCEPT !.current_owner = Head(m.access_queue),
                            !.access_queue = Tail(m.access_queue),
                            !.locked = TRUE]
         IN  Result(g, send_data(g))
    ELSE Result(m, <<>>)

grant_next_lock(m) ==
    IF (~m.locked) /\ (m.access_queue # <<>>)
    THEN LET g == [m EXCEPT !.current_owner = Head(m.access_queue),
                            !.access_queue = Tail(m.access_queue),
                            !.locked = TRUE]
         IN  Result(g, send_data(g))
    ELSE Result(m, <<>>)

\* Mutant: push_front instead of push_back.
access_request_front(m, client_id) ==
    grant_next_lock([m EXCEPT !.access_queue = <<client_id>> \o m.access_queue])

access_request(m, client_id) ==
    grant_next_lock([m EXCEPT !.access_queue = Append(m.access_queue, client_id)])

\* Mutant: current_owner not cleared.
release_request_keep_owner(m) ==
    IF m.locked
    THEN grant_next_lock([m EXCEPT !.locked = FALSE])
    ELSE Result(m, <<>>)

\* Mutant: `locked` not cleared.
release_request_keep_locked(m) ==
    IF m.locked
    THEN grant_next_lock([m EXCEPT !.current_owner = None])
    ELSE Result(m, <<>>)

release_request(m) ==
    IF m.locked
    THEN grant_next_lock([m EXCEPT !.locked = FALSE, !.current_owner = None])
    ELSE Result(m, <<>>)    \* "Release Request on Mutex that was not locked"

\* mutexes.entry(name).or_insert(HeimdallrDaemonMutex::new(..))
OrInsert(map, name, m) == IF name \in DOMAIN map THEN map ELSE map @@ (name :> m)

\* ------------------------------------------------------------ streams
\* Writes appended to the control connections they are addressed to.
RECURSIVE Deliver(_, _)
Deliver(st, writes) ==
    IF writes = <<>> THEN st
    ELSE Deliver([st EXCEPT ![Head(writes).to] = Append(@, RawData(Head(writes).data))],
                 Tail(writes))

\* The ranks a sequence of writes hands the value to, in order.
Granted(writes) == [i \in 1 .. Len(writes) |-> writes[i].to]

\* A client reads one message through a fresh BufReader: the reader may pull
\* more of the stream into its buffer than the message it decodes, and what it
\* pulled is dropped with the reader. What is left of the stream afterwards:
AfterRead(q) == {SubSeq(q, k + 1, Len(q)) : k \in 1 .. Len(q)}

\* ------------------------------------------------------- registration
\* The client processes of a job, the job names and the sizes they may pass.
Procs == Ranks
JobNames == {"", "job"}
Sizes == 1 .. NumRanks

\* HeimdallrClient::init up to the send of the ClientRegistrationPkt: connect to
\* the coordinator and send job, size and the address of the own listener.
ClientInit(c, job, size) ==
    /\ reg_pkt[c] = <<>>
    /\ incoming' = Append(incoming, c)
    /\ reg_pkt' = [reg_pkt EXCEPT ![c] = <<ClientRegistrationPkt(job, size, ListenerAddr(c))>>]
    /\ arrivals' = Append(arrivals, c)
    /\ UNCHANGED <<scenario, dvars, pvars, fvars, cvars, nvars, hvars, gvars, run_pc, job_name, run_job_size,
                   clients, client_listeners, job_threads, reg_reply, registered>>

\* A process that connects to the coordinator and sends something else than a
\* registration.
OtherKinds == {"Barrier", "undecodable"}
StrayConnect(c, kind) ==
    /\ reg_pkt[c] = <<>>
    /\ incoming' = Append(incoming, c)
    /\ reg_pkt' = [reg_pkt EXCEPT ![c] = <<OtherPkt(kind)>>]
    /\ arrivals' = Append(arrivals, c)
    /\ UNCHANGED <<scenario, dvars, pvars, fvars, cvars, nvars, hvars, gvars, run_pc, job_name, run_job_size,
                   clients, client_listeners, job_threads, reg_reply, registered>>

\* HeimdallrClient::init from ClientRegistrationReplyPkt::receive on.
ClientInitReturn(c) ==
    /\ reg_reply[c] # <<>>
    /\ registered' = [registered EXCEPT ![c] = <<Head(reg_reply[c])>>]
    /\ reg_reply' = [reg_reply EXCEPT ![c] = Tail(@)]
    /\ UNCHANGED <<scenario, dvars, pvars, fvars, cvars, nvars, hvars, gvars, run_pc, incoming, reg_pkt, job_name,
                   run_job_size, clients, client_listeners, job_threads, arrivals>>

\* run(): name and size of the job after a registration. The name tells whether
\* a registration has been seen before.
JobOf(name, size, client_reg) ==
    IF name = ""
    THEN [job_name |-> client_reg.job, job_size |-> client_reg.size]
    ELSE [job_name |-> name, job_size |-> size]

\* Mutant: the loop left with the first registration.
AllRegisteredAtOnce(n, size) == n >= 1

\* run(): the test that ends the registration loop.
AllRegistered(n, size) == n = size

\* run(): where it goes after a turn of the registration loop that leaves n
\* streams in clients. With no stream both later loops are empty and run()
\* returns.
AfterAccept(n, size) ==
    IF AllRegistered(n, size) THEN (IF n = 0 THEN "returned" ELSE "reply") ELSE "accept"

\* run(): one turn of the loop over client_listener.incoming(). DaemonPkt::receive
\* panics on bytes it cannot decode, in the thread of run().
RunAccept ==
    /\ run_pc = "accept"
    /\ incoming # <<>>
    /\ LET stream_ == Head(incoming)
           pkt == Head(reg_pkt[stream_])
           job == JobOf(job_name, run_job_size, pkt)
       IN  CASE pkt.kind = "undecodable" ->
                    /\ run_pc' = "panicked"
                    /\ UNCHANGED <<job_name, run_job_size, clients, client_listeners>>
             [] pkt.kind = "ClientRegistration" ->
                    /\ job_name' = job.job_name
                    /\ run_job_size' = job.job_size
                    /\ clients' = Append(clients, stream_)
                    /\ client_listeners' = Append(client_listeners, pkt.listener_addr)
                    /\ run_pc' = AfterAccept(Len(clients) + 1, job.job_size)
             [] OTHER ->     \* "Unknown Packet type"
                    /\ run_pc' = AfterAccept(Len(clients), run_job_size)
                    /\ UNCHANGED <<job_name, run_job_size, clients, client_listeners>>
    /\ incoming' = Tail(incoming)
    /\ UNCHANGED <<scenario, dvars, pvars, fvars, cvars, nvars, hvars, gvars, reg_pkt, job_threads, reg_reply,
                   registered, arrivals>>

\* Mutant: the reply carries the number of clients still to be answered.
ReplyIdRemaining(answered, waiting) == waiting - 1

\* run(): the id of the reply loop, for `answered` replies sent and `waiting`
\* streams left in clients.
ReplyId(answered, waiting) == answered

\* run(): one turn of the reply loop: clients.remove(0), the reply with id and
\* client_listeners, and the spawn of handle_client for that stream.
RunReply ==
    /\ run_pc = "reply"
    /\ LET id == ReplyId(Len(job_threads), Len(clients))
           stream_ == Head(clients)
       IN  /\ reg_reply' = [reg_reply EXCEPT
                               ![stream_] = Append(@, ClientRegistrationReplyPkt(id, client_listeners))]
           /\ hpc' = [hpc EXCEPT ![Len(job_threads)] = "recv"]
           /\ job_threads' = Append(job_threads, Len(job_threads))
    /\ clients' = Tail(clients)
    /\ run_pc' = IF Len(clients) = 1 THEN "join" ELSE "reply"
    /\ UNCHANGED <<scenario, dvars, pvars, fvars, cvars, nvars, hname, tbwait, tbcount, barrier, mutexes, gvars,
                   incoming, reg_pkt, job_name, run_job_size, client_listeners, registered,
                   arrivals>>

\* ------------------------------------------------------- client programs
\* What the program of rank r may call next. op is "create", "lock" or "barrier".
MayCall(r, op, name) ==
    CASE scenario = "free" -> ops[r] < MaxOps
      [] scenario = "barriers" -> op = "barrier" /\ ops[r] < MaxEpochs
      [] scenario = "counter" ->
            /\ cheld[r] = {}
            /\ name \in {"", "testmutex"}
            /\ \/ op = "create" /\ ops[r] = 0
               \/ op = "lock" /\ (ops[r] \in 1 .. MaxCycles \/ ops[r] = MaxCycles + 2)
               \/ op = "barrier" /\ ops[r] = MaxCycles + 1
      [] scenario = "cycle" ->
            /\ cheld[r] = {}
            /\ name \in {"", "testmutex"}
            /\ \/ op = "create" /\ ops[r] = 0
               \/ op = "lock" /\ ops[r] = 1
      [] scenario = "shutdown" ->
            /\ name \in {"", "testmutex"}
            /\ \/ op \in {"create", "barrier"} /\ ops[r] < MaxOps
               \/ op = "finalize"
      [] scenario = "collectives" ->
            /\ op \in {"create", "barrier"}
            /\ name \in {"", "testmutex"}
            /\ ops[r] < MaxCalls
      [] scenario = "release" ->
            /\ name = "testmutex"
            /\ \/ op = "create" /\ ops[r] = 0
               \/ op \in {"lock", "release"} /\ ops[r] \in 1 .. MaxOps

\* The start values the program may pass to create_mutex.
MayStart == IF scenario = "free" THEN StartValues ELSE {0}

\* The values the program may leave in a handle whose value was v when granted.
MaySet(r, v) ==
    CASE scenario = "free" -> {v, v + 1}
      [] scenario = "counter" -> IF ops[r] <= MaxCycles + 1 THEN {v + 1} ELSE {v}
      [] OTHER -> {v}

\* The call counter after one more call; the endless program does not count.
Counted(r) == IF scenario = "cycle" /\ ops[r] = 1 THEN ops ELSE [ops EXCEPT ![r] = @ + 1]

\* History is kept for the bounded programs only.
Log(seq, more) == IF scenario = "cycle" THEN seq ELSE seq \o more

\* ================================================================ clients
\* HeimdallrMutex::new, up to the send of the MutexCreationPkt.
ClientCreateMutex(r, name, start_value) ==
    /\ cpc[r] = "idle"
    /\ MayCall(r, "create", name)
    /\ daemon_stream' = [daemon_stream EXCEPT
                            ![r] = Append(@, MutexCreationPkt(name, r, Serialize(start_value)))]
    /\ cpc' = [cpc EXCEPT ![r] = "create"]
    /\ carg' = [carg EXCEPT ![r] = name]
    /\ ops' = Counted(r)
    /\ csent' = [csent EXCEPT ![r][name] = @ + 1]
    /\ UNCHANGED <<scenario, dvars, pvars, rvars, fvars, cobjs, cheld, cdata, stream, hvars,
                   bsent, bret, brepl, crepl, reqlog, grantlog, incs, initval>>

\* HeimdallrMutex::new, from MutexCreationReplyPkt::receive on. The object's data
\* field is private and read only through a handle, that is after lock() has
\* overwritten it, so the start value kept in the new object is not modelled.
ClientCreateMutexReturn(r) ==
    /\ cpc[r] = "create"
    /\ stream[r] # <<>>
    /\ \E rest \in AfterRead(stream[r]) : stream' = [stream EXCEPT ![r] = rest]
    /\ LET reply == Head(stream[r])
       IN  IF reply.kind = "MutexCreationReply" /\ reply.name = carg[r]
           THEN /\ cpc' = [cpc EXCEPT ![r] = "idle"]
                /\ cobjs' = [cobjs EXCEPT ![r] = @ \cup {carg[r]}]
           ELSE /\ cpc' = [cpc EXCEPT ![r] = "panic"]
                /\ cobjs' = cobjs
    /\ UNCHANGED <<scenario, dvars, pvars, rvars, fvars, carg, cheld, cdata, ops, daemon_stream, hvars, gvars>>

\* HeimdallrMutex::lock, up to the send of the MutexLockReqPkt. lock() borrows
\* the object mutably for the life of the handle, so the object of a live
\* handle cannot be locked again.
ClientLock(r, name) ==
    /\ cpc[r] = "idle"
    /\ name \in cobjs[r]
    /\ name \notin cheld[r]
    /\ MayCall(r, "lock", name)
    /\ daemon_stream' = [daemon_stream EXCEPT ![r] = Append(@, MutexLockReqPkt(name, r))]
    /\ cpc' = [cpc EXCEPT ![r] = "lock"]
    /\ carg' = [carg EXCEPT ![r] = name]
    /\ ops' = Counted(r)
    /\ UNCHANGED <<scenario, dvars, pvars, rvars, fvars, cobjs, cheld, cdata, stream, hvars, gvars>>

\* HeimdallrMutex::lock, from the read of the value on.
ClientLockReturn(r) ==
    /\ cpc[r] = "lock"
    /\ stream[r] # <<>>
    /\ \E rest \in AfterRead(stream[r]) : stream' = [stream EXCEPT ![r] = rest]
    /\ LET msg == Head(stream[r])
       IN  IF msg.kind = "raw"
           THEN /\ cpc' = [cpc EXCEPT ![r] = "idle"]
                /\ cdata' = [cdata EXCEPT ![r][carg[r]] = Deserialize(msg.data)]
                /\ cheld' = [cheld EXCEPT ![r] = @ \cup {carg[r]}]
           ELSE /\ cpc' = [cpc EXCEPT ![r] = "panic"]
                /\ UNCHANGED <<cdata, cheld>>
    /\ UNCHANGED <<scenario, dvars, pvars, rvars, fvars, carg, cobjs, ops, daemon_stream, hvars, gvars>>

\* The user sets the value through the handle and drops it: push_data.
ClientUnlock(r, name, value) ==
    /\ cpc[r] = "idle"
    /\ name \in cheld[r]
    /\ value \in MaySet(r, cdata[r][name])
    /\ daemon_stream' = [daemon_stream EXCEPT
                            ![r] = Append(@, MutexWriteAndReleasePkt(name, Serialize(value)))]
    /\ incs' = [incs EXCEPT ![name] = @ + (value - cdata[r][name])]
    /\ cdata' = [cdata EXCEPT ![r][name] = value]
    /\ cheld' = [cheld EXCEPT ![r] = @ \ {name}]
    /\ UNCHANGED <<scenario, dvars, pvars, rvars, fvars, cpc, carg, cobjs, ops, stream, hvars,
                   bsent, bret, brepl, csent, crepl, reqlog, grantlog, initval>>

\* HeimdallrClient::barrier, up to the send of the BarrierPkt.
ClientBarrier(r) ==
    /\ cpc[r] = "idle"
    /\ MayCall(r, "barrier", "")
    /\ daemon_stream' = [daemon_stream EXCEPT ![r] = Append(@, BarrierPkt(r, job_size))]
    /\ cpc' = [cpc EXCEPT ![r] = "barrier"]
    /\ ops' = Counted(r)
    /\ bsent' = [bsent EXCEPT ![r] = @ + 1]
    /\ UNCHANGED <<scenario, dvars, pvars, rvars, fvars, carg, cobjs, cheld, cdata, stream, hvars,
                   bret, brepl, csent, crepl, reqlog, grantlog, incs, initval>>

\* HeimdallrClient::barrier, from BarrierReplyPkt::receive on.
ClientBarrierReturn(r) ==
    /\ cpc[r] = "barrier"
    /\ stream[r] # <<>>
    /\ \E rest \in AfterRead(stream[r]) : stream' = [stream EXCEPT ![r] = rest]
    /\ IF Head(stream[r]).kind = "BarrierReply"
       THEN /\ cpc' = [cpc EXCEPT ![r] = "idle"]
            /\ bret' = [bret EXCEPT ![r] = @ + 1]
       ELSE /\ cpc' = [cpc EXCEPT ![r] = "panic"]
            /\ bret' = bret
    /\ UNCHANGED <<scenario, dvars, pvars, rvars, fvars, carg, cobjs, cheld, cdata, ops, daemon_stream, hvars,
                   bsent, brepl, csent, crepl, reqlog, grantlog, incs, initval>>

\* A client that speaks the protocol itself writes a MutexWriteAndReleasePkt for
\* a mutex it does not hold.
ClientReleaseUnheld(r, name, value) ==
    /\ cpc[r] = "idle"
    /\ name \in cobjs[r]
    /\ name \notin cheld[r]
    /\ MayCall(r, "release", name)
    /\ daemon_stream' = [daemon_stream EXCEPT
                            ![r] = Append(@, MutexWriteAndReleasePkt(name, Serialize(value)))]
    /\ ops' = Counted(r)
    /\ UNCHANGED <<scenario, dvars, pvars, rvars, fvars, cpc, carg, cobjs, cheld, cdata, stream,
                   hvars, gvars>>

\* ================================================= coordinator: handle_client
\* The handler of rank r is at the top of its loop with a packet of `kind` to read.
Receives(r, kind) ==
    /\ hpc[r] = "recv"
    /\ daemon_stream[r] # <<>>
    /\ Head(daemon_stream[r]).kind = kind

Consume(r) == daemon_stream' = [daemon_stream EXCEPT ![r] = Tail(@)]

\* Mutant: the start_data of every MutexCreation packet stored.
CreateOrRegisterOverwriting(map, pkt, s) ==
    LET inserted == OrInsert(map, pkt.name, DaemonMutexNew(pkt.name, job_size, pkt.data))
    IN  [inserted EXCEPT ![pkt.name] = MutexRegisterClient([@ EXCEPT !.data = pkt.data], pkt.id, s)]

\* MutexCreation arm, first critical section: or_insert and register_client.
CreateOrRegister(map, pkt, s) ==
    LET inserted == OrInsert(map, pkt.name, DaemonMutexNew(pkt.name, job_size, pkt.data))
    IN  [inserted EXCEPT ![pkt.name] = MutexRegisterClient(@, pkt.id, s)]

HandleMutexCreation(r) ==
    /\ Receives(r, "MutexCreation")
    /\ Consume(r)
    /\ LET mutex_pkt == Head(daemon_stream[r])
       IN  /\ mutexes' = CreateOrRegister(mutexes, mutex_pkt, r)
           /\ hname' = [hname EXCEPT ![r] = mutex_pkt.name]
           /\ initval' = IF mutex_pkt.name \in DOMAIN mutexes THEN initval
                         ELSE [initval EXCEPT ![mutex_pkt.name] = Deserialize(mutex_pkt.data)]
    /\ hpc' = [hpc EXCEPT ![r] = "mc_wait"]
    /\ UNCHANGED <<scenario, dvars, pvars, rvars, fvars, cvars, stream, tbwait, tbcount, barrier,
                   bsent, bret, brepl, csent, crepl, reqlog, grantlog, incs>>

\* MutexCreation arm, after thread_barrier.wait(): the reply, if constructed.
MutexCreationReply(r) ==
    /\ hpc[r] = "mc_reply"
    /\ IF mutexes[hname[r]].constructed
       THEN /\ stream' = [stream EXCEPT
                             ![r] = Append(@, MutexCreationReplyPkt(mutexes[hname[r]].name))]
            /\ crepl' = [crepl EXCEPT ![r][mutexes[hname[r]].name] = @ + 1]
       ELSE UNCHANGED <<stream, crepl>>     \* "Expected Mutex to be constructed"
    /\ hpc' = [hpc EXCEPT ![r] = "recv"]
    /\ UNCHANGED <<scenario, dvars, pvars, rvars, fvars, cvars, daemon_stream, hname, tbwait, tbcount, barrier, mutexes,
                   bsent, bret, brepl, csent, reqlog, grantlog, incs, initval>>

\* MutexLockReq arm. get_mut(..).expect(..) panics for a name never created.
HandleMutexLockReq(r) ==
    /\ Receives(r, "MutexLockReq")
    /\ Consume(r)
    /\ LET mutex_pkt == Head(daemon_stream[r])
       IN  IF mutex_pkt.name \in DOMAIN mutexes
           THEN LET res == access_request(mutexes[mutex_pkt.name], mutex_pkt.id)
                IN  /\ mutexes' = [mutexes EXCEPT ![mutex_pkt.name] = res.mutex]
                    /\ stream' = Deliver(stream, res.writes)
                    /\ reqlog' = [reqlog EXCEPT
                                     ![mutex_pkt.name] = Log(@, <<mutex_pkt.id>>)]
                    /\ grantlog' = [grantlog EXCEPT
                                       ![mutex_pkt.name] = Log(@, Granted(res.writes))]
                    /\ hpc' = hpc
           ELSE /\ hpc' = [hpc EXCEPT ![r] = "panic"]
                /\ UNCHANGED <<mutexes, stream, reqlog, grantlog>>
    /\ UNCHANGED <<scenario, dvars, pvars, rvars, fvars, cvars, hname, tbwait, tbcount, barrier,
                   bsent, bret, brepl, csent, crepl, incs, initval>>

\* MutexWriteAndRelease arm, on the mutex it names.
\* Mutant: the written value not stored.
write_and_release_no_store(m, data) == release_request(m)

write_and_release(m, data) == release_request([m EXCEPT !.data = data])

HandleMutexWriteAndRelease(r) ==
    /\ Receives(r, "MutexWriteAndRelease")
    /\ Consume(r)
    /\ LET mutex_pkt == Head(daemon_stream[r])
       IN  IF mutex_pkt.name \in DOMAIN mutexes
           THEN LET res == write_and_release(mutexes[mutex_pkt.name], mutex_pkt.data)
                IN  /\ mutexes' = [mutexes EXCEPT ![mutex_pkt.name] = res.mutex]
                    /\ stream' = Deliver(stream, res.writes)
                    /\ grantlog' = [grantlog EXCEPT
                                       ![mutex_pkt.name] = Log(@, Granted(res.writes))]
                    /\ hpc' = hpc
           ELSE /\ hpc' = [hpc EXCEPT ![r] = "panic"]
                /\ UNCHANGED <<mutexes, stream, grantlog>>
    /\ UNCHANGED <<scenario, dvars, pvars, rvars, fvars, cvars, hname, tbwait, tbcount, barrier,
                   bsent, bret, brepl, csent, crepl, reqlog, incs, initval>>

\* Mutant: the reply sent on registration, without any rendezvous.
HandleBarrierEager(r) ==
    /\ Receives(r, "Barrier")
    /\ Consume(r)
    /\ barrier' = BarrierReset(BarrierRegisterClient(barrier, Head(daemon_stream[r]).id, r))
    /\ stream' = [stream EXCEPT ![r] = Append(@, BarrierReplyPkt(job_size))]
    /\ brepl' = [brepl EXCEPT ![r] = @ + 1]
    /\ hpc' = hpc
    /\ UNCHANGED <<scenario, dvars, pvars, rvars, fvars, cvars, hname, tbwait, tbcount, mutexes,
                   bsent, bret, csent, crepl, reqlog, grantlog, incs, initval>>

\* Barrier arm, first critical section: register_client.
HandleBarrier(r) ==
    /\ Receives(r, "Barrier")
    /\ Consume(r)
    /\ barrier' = BarrierRegisterClient(barrier, Head(daemon_stream[r]).id, r)
    /\ hpc' = [hpc EXCEPT ![r] = "b_wait1"]
    /\ UNCHANGED <<scenario, dvars, pvars, rvars, fvars, cvars, stream, hname, tbwait, tbcount, mutexes, gvars>>

\* Barrier arm, after the first thread_barrier.wait(): the reply, if finished.
BarrierReply(r) ==
    /\ hpc[r] = "b_reply"
    /\ IF barrier.finished
       THEN /\ stream' = [stream EXCEPT ![r] = Append(@, BarrierReplyPkt(job_size))]
            /\ brepl' = [brepl EXCEPT ![r] = @ + 1]
       ELSE UNCHANGED <<stream, brepl>>     \* "Expected all client to have participated"
    /\ hpc' = [hpc EXCEPT ![r] = "b_wait2"]
    /\ UNCHANGED <<scenario, dvars, pvars, rvars, fvars, cvars, daemon_stream, hname, tbwait, tbcount, barrier, mutexes,
                   bsent, bret, csent, crepl, reqlog, grantlog, incs, initval>>

\* Barrier arm, the leader of the second wait resets the DaemonBarrier.
BarrierLeaderReset(r) ==
    /\ hpc[r] = "b_reset"
    /\ barrier' = BarrierReset(barrier)
    /\ hpc' = [hpc EXCEPT ![r] = "b_wait3"]
    /\ UNCHANGED <<scenario, dvars, pvars, rvars, fvars, cvars, nvars, hname, tbwait, tbcount, mutexes, gvars>>

\* ------------------------------------------------------- finalization
\* Drop for HeimdallrClient, up to the send of the FinalizePkt.
ClientFinalize(r) ==
    /\ cpc[r] = "idle"
    /\ MayCall(r, "finalize", "")
    /\ daemon_stream' = [daemon_stream EXCEPT ![r] = Append(@, FinalizePkt(r, job_size))]
    /\ cpc' = [cpc EXCEPT ![r] = "finalize"]
    /\ fsent' = [fsent EXCEPT ![r] = @ + 1]
    /\ UNCHANGED <<scenario, dvars, pvars, rvars, carg, cobjs, cheld, cdata, ops, stream, hvars, gvars,
                   finalize, frepl, fret>>

\* Drop for HeimdallrClient, from FinalizeReplyPkt::receive on.
ClientFinalizeReturn(r) ==
    /\ cpc[r] = "finalize"
    /\ stream[r] # <<>>
    /\ \E rest \in AfterRead(stream[r]) : stream' = [stream EXCEPT ![r] = rest]
    /\ IF Head(stream[r]).kind = "FinalizeReply"
       THEN /\ cpc' = [cpc EXCEPT ![r] = "done"]
            /\ fret' = [fret EXCEPT ![r] = @ + 1]
       ELSE /\ cpc' = [cpc EXCEPT ![r] = "panic"]
            /\ fret' = fret
    /\ UNCHANGED <<scenario, dvars, pvars, rvars, carg, cobjs, cheld, cdata, ops, daemon_stream, hvars, gvars,
                   finalize, fsent, frepl>>

\* A client blocked in a receive on its control connection after the
\* coordinator process has exited: the read fails and the client panics.
ClientConnectionClosed(r) ==
    /\ run_pc = "exited"
    /\ cpc[r] \in {"create", "lock", "barrier", "finalize"}
    /\ stream[r] = <<>>
    /\ cpc' = [cpc EXCEPT ![r] = "panic"]
    /\ UNCHANGED <<scenario, dvars, pvars, rvars, fvars, carg, cobjs, cheld, cdata, ops, nvars, hvars, gvars>>

\* Finalize arm, first critical section: register_client.
HandleFinalize(r) ==
    /\ Receives(r, "Finalize")
    /\ Consume(r)
    /\ finalize' = FinalizeRegisterClient(finalize, Head(daemon_stream[r]).id, r)
    /\ hpc' = [hpc EXCEPT ![r] = "f_wait1"]
    /\ UNCHANGED <<scenario, dvars, pvars, rvars, cvars, stream, hname, tbwait, tbcount, barrier, mutexes,
                   gvars, fsent, frepl, fret>>

\* Finalize arm, after the first thread_barrier.wait(): the reply, if finished.
FinalizeReply(r) ==
    /\ hpc[r] = "f_reply"
    /\ IF finalize.finished
       THEN /\ stream' = [stream EXCEPT ![r] = Append(@, FinalizeReplyPkt(job_size))]
            /\ frepl' = [frepl EXCEPT ![r] = @ + 1]
       ELSE UNCHANGED <<stream, frepl>>  \* "Expected to have already received all FinalizePkts"
    /\ hpc' = [hpc EXCEPT ![r] = "f_wait2"]
    /\ UNCHANGED <<scenario, dvars, pvars, rvars, cvars, daemon_stream, hname, tbwait, tbcount, barrier,
                   mutexes, gvars, finalize, fsent, fret>>

\* run(): the join loop. Its first turn joins the first thread and then calls
\* process::exit, which ends every other thread where it stands.
RunJoin ==
    /\ run_pc = "join"
    /\ job_threads # <<>>
    /\ hpc[Head(job_threads)] = "done"
    /\ run_pc' = "exited"
    /\ hpc' = [r \in Ranks |-> IF hpc[r] = "done" THEN "done" ELSE "exited"]
    /\ tbwait' = [r \in Ranks |-> "no"]
    /\ UNCHANGED <<scenario, dvars, pvars, fvars, cvars, nvars, hname, tbcount, barrier, mutexes, gvars,
                   incoming, reg_pkt, job_name, run_job_size, clients, client_listeners,
                   job_threads, reg_reply, registered, arrivals>>

\* ------------------------------------------------------- thread_barrier
\* std::sync::Barrier of job_size parties. wait() counts the caller in; the
\* caller that completes the generation resets the count, wakes the others and
\* is the leader; every other caller sleeps until its generation is complete.
WaitPcs == {"mc_wait", "b_wait1", "b_wait2", "b_wait3", "f_wait1", "f_wait2"}

\* Where handle_client continues after the wait at pc.
AfterWait(pc, is_leader) ==
    CASE pc = "mc_wait" -> "mc_reply"
      [] pc = "b_wait1" -> "b_reply"
      [] pc = "b_wait2" -> IF is_leader THEN "b_reset" ELSE "b_wait3"
      [] pc = "b_wait3" -> "recv"
      [] pc = "f_wait1" -> "f_reply"
      [] pc = "f_wait2" -> "done"       \* return ()

\* The generation is complete with this arrival.
LastArrival(count) == count + 1 >= job_size

ThreadBarrierWait(r) ==
    /\ hpc[r] \in WaitPcs
    /\ tbwait[r] = "no"
    /\ IF LastArrival(tbcount)
       THEN /\ tbcount' = 0
            /\ tbwait' = [s \in Ranks |-> IF tbwait[s] = "blocked" THEN "released" ELSE tbwait[s]]
            /\ hpc' = [hpc EXCEPT ![r] = AfterWait(@, TRUE)]
       ELSE /\ tbcount' = tbcount + 1
            /\ tbwait' = [tbwait EXCEPT ![r] = "blocked"]
            /\ hpc' = hpc
    /\ UNCHANGED <<scenario, dvars, pvars, rvars, fvars, cvars, nvars, hname, barrier, mutexes, gvars>>

ThreadBarrierWake(r) ==
    /\ tbwait[r] = "released"
    /\ tbwait' = [tbwait EXCEPT ![r] = "no"]
    /\ hpc' = [hpc EXCEPT ![r] = AfterWait(@, FALSE)]
    /\ UNCHANGED <<scenario, dvars, pvars, rvars, fvars, cvars, nvars, hname, tbcount, barrier, mutexes, gvars>>

\* ======================================================= peer-to-peer
MaxMsgs == 2           \* send / receive calls per rank in the peer-to-peer scenario
MaxIters == 4          \* iterations of the ping-pong loop

Tags == 0 .. (NumRanks - 1)             \* operation ids (tags) a program may use
FreeTags == {0, 1}                      \* the tags of the peer-to-peer scenario
Keys == Ranks \X Tags                   \* keys of readers: (client_id, op_id)
Original == <<65, 65>>                  \* vec!['A'; buff_size] of the ping-pong

\* bincode::serialize of a Vec<u8> or a &[u8]: the length as a u64, then the bytes.
SerializeVec(v) == Serialize(Len(v)) \o v

\* bincode::deserialize_from of a Vec<u8>.
DeserializeVecWhole(b) == SubSeq(b, U64Bytes, Len(b))
DeserializeVec(b) ==
    LET n == Deserialize(SubSeq(b, 1, U64Bytes))
    IN  SubSeq(b, U64Bytes + 1, U64Bytes + n)

\* bincode of the payload type of the program: a u64 in the gather test, a Vec
\* in the others.
Encode(data) == IF scenario = "gather" THEN Serialize(data) ELSE SerializeVec(data)
Decode(b) == IF scenario = "gather" THEN Deserialize(b) ELSE DeserializeVec(b)

\* The buffer rank s passes to its n-th send in the peer-to-peer scenario.
Payload(s, n) == <<s, n>>

\* The address of the op_listener bound for the n-th send of rank s.
OpAddr(s, n) == <<"op", s, n>>

ClientOperationPkt(client_id, op_id, addr) ==
    [client_id |-> client_id, op_id |-> op_id, addr |-> addr]

\* One send operation: its arguments, the position of the sending thread
\* ("called" | "connected" | "accept" | "done"), what it wrote to stream2 and
\* who connected to its op_listener.
SendOp(dest, id, data, nb) ==
    [dest |-> dest, id |-> id, data |-> data, nb |-> nb,
     state |-> "called", wire |-> <<>>, peer |-> None]

NoArg == [source |-> None, id |-> None, any |-> FALSE, addr |-> <<>>, op |-> 0]

\* The sends issued in the job so far.
Issued == Cardinality({p \in Ranks \X (1 .. MaxMsgs) : p[2] <= Len(sendops[p[1]])})

\* The client process that has rank r: run() numbers the clients in the order
\* in which it accepted them.
ProcOf(r) == arrivals[r + 1]

\* HeimdallrClient::init of rank r has returned: the client has its reply and
\* its listener thread runs.
Started(r) == r < Len(arrivals) /\ registered[ProcOf(r)] # <<>>

\* The peer listener of rank r is bound, so that a connection to it is queued
\* by the system until the listener thread accepts it: init binds the listener
\* before it sends the registration.
\* Mutant: the listener bound after the reply, where the listener thread starts.
BoundWhenStarted(r) == Started(r)
Bound(r) == r < Len(arrivals) /\ reg_pkt[ProcOf(r)] # <<>>

\* The halo exchange of calculate, the calls of rank r in their order: a rank
\* with a next rank sends it its last line but one (tag 2) and receives its last
\* line from it (tag 1); a rank with a rank before receives its first line from
\* it (tag 2) and then sends it its second line (tag 1).
HaloCall(kind, peer, id) == [kind |-> kind, peer |-> peer, id |-> id]
\* Mutant: a rank with a rank before sends to it first and receives then.
HaloSendFirst(r) ==
    (IF r < job_size - 1
     THEN <<HaloCall("send", r + 1, 2), HaloCall("receive", r + 1, 1)>> ELSE <<>>)
    \o (IF r > 0
        THEN <<HaloCall("send", r - 1, 1), HaloCall("receive", r - 1, 2)>> ELSE <<>>)
Halo(r) ==
    (IF r < job_size - 1
     THEN <<HaloCall("send", r + 1, 2), HaloCall("receive", r + 1, 1)>> ELSE <<>>)
    \o (IF r > 0
        THEN <<HaloCall("receive", r - 1, 2), HaloCall("send", r - 1, 1)>> ELSE <<>>)
HaloNext(r, call) == pstep[r] < Len(Halo(r)) /\ Halo(r)[pstep[r] + 1] = call

\* What the program of rank r may send next.
MaySend(r, dest, id, nb) ==
    CASE scenario = "p2p" -> r # 0 /\ dest = 0 /\ id \in FreeTags /\ Issued < MaxMsgs
      [] scenario = "pingpong" ->
            /\ ~nb
            /\ pstep[r] < 2 * MaxIters
            /\ \/ r = 0 /\ pstep[r] % 2 = 0 /\ dest = 1 /\ id = 0
               \/ r = 1 /\ pstep[r] % 2 = 1 /\ dest = 0 /\ id = 1
      [] scenario = "anysource" -> ~nb /\ r # 0 /\ pstep[r] = 0 /\ dest = 0 /\ id = r
      [] scenario = "gather" -> ~nb /\ r # 0 /\ pstep[r] < 2 /\ dest = 0 /\ id = 0
      [] scenario = "exchange" -> ~nb /\ dest # r /\ id = 0 /\ sendops[r] = <<>>
      [] scenario = "contend" -> r # 0 /\ dest = 0 /\ id = 0 /\ sendops[r] = <<>>
      [] scenario = "startup" ->
            ~nb /\ Started(r) /\ r = 0 /\ id = 0 /\ dest = Len(sendops[r]) + 1 /\ dest < job_size
      [] scenario = "halo" -> ~nb /\ HaloNext(r, HaloCall("send", dest, id))
      [] scenario = "nb" ->
            /\ r = 0 /\ dest = 1
            /\ \/ nb /\ pstep[r] = 0 /\ id = 0
               \/ ~nb /\ pstep[r] = 1 /\ id = 1
      [] OTHER -> FALSE

\* The rank the k-th receive of rank 0 names in the gather test (k from 0):
\* 1, ..., N-1, then N-1, ..., 1.
GatherSource(k) == IF k < job_size - 1 THEN k + 1 ELSE 2 * (job_size - 1) - k

\* What the program of rank r may receive next.
MayReceive(r, source, id, any) ==
    CASE scenario = "p2p" ->
            r = 0 /\ pstep[r] < MaxMsgs /\ id \in FreeTags /\ (any \/ source # r)
      [] scenario = "pingpong" ->
            /\ ~any
            /\ pstep[r] < 2 * MaxIters
            /\ \/ r = 0 /\ pstep[r] % 2 = 1 /\ source = 1 /\ id = 1
               \/ r = 1 /\ pstep[r] % 2 = 0 /\ source = 0 /\ id = 0
      [] scenario = "anysource" -> any /\ r = 0 /\ pstep[r] < job_size - 1 /\ id = pstep[r] + 1
      [] scenario = "gather" ->
            /\ ~any /\ r = 0 /\ id = 0
            /\ pstep[r] < 2 * (job_size - 1)
            /\ source = GatherSource(pstep[r])
      [] scenario = "exchange" -> ~any /\ source # r /\ id = 0 /\ pstep[r] = Len(sendops[r])
      [] scenario = "contend" -> r = 0 /\ id = 0 /\ pstep[r] = 0 /\ (any \/ source # r)
      [] scenario = "startup" ->
            ~any /\ Started(r) /\ r # 0 /\ source = 0 /\ id = 0 /\ pstep[r] = 0
      [] scenario = "halo" -> ~any /\ HaloNext(r, HaloCall("receive", source, id))
      [] scenario = "nb" ->
            ~any /\ r = 1 /\ source = 0 /\ id = 1 /\ pstep[r] = 0 /\ Len(recvops[r]) = 1
      [] OTHER -> FALSE

\* The buffer the program passes to its next send.
SendData(r) ==
    CASE scenario = "pingpong" -> buf[r]
      [] scenario = "gather" -> r
      [] OTHER -> Payload(r, Len(sendops[r]) + 1)

\* send and send_slice: the call. The main thread does the send.
ClientSend(s, dest, id) ==
    /\ ppc[s] = "idle"
    /\ MaySend(s, dest, id, FALSE)
    /\ sendops' = [sendops EXCEPT ![s] = Append(@, SendOp(dest, id, SendData(s), FALSE))]
    /\ ppc' = [ppc EXCEPT ![s] = "send"]
    /\ pstep' = [pstep EXCEPT ![s] = @ + 1]
    /\ UNCHANGED <<jobvars, dvars, recvops, peer_incoming, lstream, readers, parg, handles, buf, rlog, nblog>>

\* send_nb: spawns the thread that does the send and returns the handle.
ClientSendNb(s, dest, id) ==
    /\ ppc[s] = "idle"
    /\ MaySend(s, dest, id, TRUE)
    /\ sendops' = [sendops EXCEPT ![s] = Append(@, SendOp(dest, id, SendData(s), TRUE))]
    /\ handles' = [handles EXCEPT ![s] = @ \cup {Len(sendops[s]) + 1}]
    /\ pstep' = [pstep EXCEPT ![s] = @ + 1]
    /\ UNCHANGED <<jobvars, dvars, recvops, peer_incoming, lstream, readers, ppc, parg, buf, rlog, nblog>>

\* send / send_nb: networking::connect to the listener of dest; with nothing
\* bound at the address connect fails and the send returns the error.
SendConnect(s, n) ==
    /\ n \in DOMAIN sendops[s]
    /\ sendops[s][n].state = "called"
    /\ IF Bound(sendops[s][n].dest)
       THEN /\ sendops' = [sendops EXCEPT ![s][n].state = "connected"]
            /\ peer_incoming' = [peer_incoming EXCEPT
                                    ![sendops[s][n].dest] = Append(@, OpAddr(s, n))]
            /\ ppc' = ppc
       ELSE /\ sendops' = [sendops EXCEPT ![s][n].state = "refused"]
            /\ peer_incoming' = peer_incoming
            /\ ppc' = IF sendops[s][n].nb THEN ppc ELSE [ppc EXCEPT ![s] = "idle"]
    /\ UNCHANGED <<jobvars, dvars, recvops, lstream, readers, parg, handles, buf, pstep, rlog, nblog>>

\* send / send_nb: op_listener is bound and the ClientOperationPkt is sent; the
\* thread then waits in op_listener.accept().
AnnouncedAndDone(op) == [op EXCEPT !.state = "done"]
Announced(op) == [op EXCEPT !.state = "accept"]
SendAnnounce(s, n) ==
    /\ n \in DOMAIN sendops[s]
    /\ sendops[s][n].state = "connected"
    /\ sendops' = [sendops EXCEPT ![s][n] = Announced(@)]
    /\ ppc' = IF sendops'[s][n].state = "done" /\ ~sendops[s][n].nb
              THEN [ppc EXCEPT ![s] = "idle"] ELSE ppc
    /\ UNCHANGED <<jobvars, dvars, recvops, peer_incoming, lstream, readers, parg, handles, buf, pstep,
                   rlog, nblog>>

\* send / send_nb, from the return of op_listener.accept() on: the payload is
\* serialized and written to stream2; send returns, the thread of send_nb ends.
SendTransfer(s, n) ==
    /\ n \in DOMAIN sendops[s]
    /\ sendops[s][n].state = "accept"
    /\ sendops[s][n].peer # None
    /\ sendops' = [sendops EXCEPT ![s][n].wire = Encode(sendops[s][n].data),
                                  ![s][n].state = "done"]
    /\ ppc' = IF sendops[s][n].nb THEN ppc ELSE [ppc EXCEPT ![s] = "idle"]
    /\ UNCHANGED <<jobvars, dvars, recvops, peer_incoming, lstream, readers, parg, handles, buf, pstep,
                   rlog, nblog>>

\* The ClientOperationPkt the send with op_listener address a has written to its
\* connection, if it has.
OpPktOf(a) ==
    LET op == sendops[a[2]][a[3]]
    IN  IF op.state \in {"accept", "done"}
        THEN <<ClientOperationPkt(a[2], op.id, a)>> ELSE <<>>

\* listener_handler: listener.incoming() yields the next connection.
ListenerAccept(d) ==
    /\ Started(d)
    /\ lstream[d] = <<>>
    /\ peer_incoming[d] # <<>>
    /\ lstream' = [lstream EXCEPT ![d] = <<Head(peer_incoming[d])>>]
    /\ peer_incoming' = [peer_incoming EXCEPT ![d] = Tail(@)]
    /\ UNCHANGED <<jobvars, dvars, recvops, readers, sendops, ppc, parg, handles, buf, pstep, rlog, nblog>>

\* Mutant: entry(..).or_insert(..), an entry of the same key is kept.
InsertIfAbsent(r, op_pkt) ==
    IF r[<<op_pkt.client_id, op_pkt.op_id>>] # <<>> THEN r
    ELSE [r EXCEPT ![<<op_pkt.client_id, op_pkt.op_id>>] = <<op_pkt.addr>>]
\* Mutant: the sender left out of the key.
InsertByTagOnly(r, op_pkt) ==
    [k \in Keys |-> IF k[2] = op_pkt.op_id THEN <<op_pkt.addr>> ELSE r[k]]
\* HashMap::insert of listener_handler: an entry of the same key is replaced.
Insert(r, op_pkt) ==
    [r EXCEPT ![<<op_pkt.client_id, op_pkt.op_id>>] = <<op_pkt.addr>>]

\* Mutant: the thread of receive_nb keeps the guard over the turns of its loop.
LockHeldWhilePolling(d) ==
    \/ ppc[d] = "recv"
    \/ \E n \in DOMAIN recvops[d] : recvops[d][n].state \in {"poll", "recv"}
\* The readers lock of rank d is held: a receive, on the main thread or on a
\* thread of receive_nb, keeps the guard while it connects and reads.
LockHeld(d) ==
    \/ ppc[d] = "recv"
    \/ \E n \in DOMAIN recvops[d] : recvops[d][n].state = "recv"

\* listener_handler: ClientOperationPkt::receive on the accepted stream, then the
\* insert under the readers lock, which a receive holds while it connects and
\* reads.
ListenerInsert(d) ==
    /\ lstream[d] # <<>>
    /\ OpPktOf(Head(lstream[d])) # <<>>
    /\ ~LockHeld(d)
    /\ readers' = [readers EXCEPT ![d] = Insert(@, Head(OpPktOf(Head(lstream[d]))))]
    /\ lstream' = [lstream EXCEPT ![d] = <<>>]
    /\ UNCHANGED <<jobvars, dvars, recvops, peer_incoming, sendops, ppc, parg, handles, buf, pstep,
                   rlog, nblog>>

\* receive: the call; it polls readers until the key is there.
ClientReceive(d, source, id) ==
    /\ ppc[d] = "idle"
    /\ MayReceive(d, source, id, FALSE)
    /\ ppc' = [ppc EXCEPT ![d] = "poll"]
    /\ parg' = [parg EXCEPT ![d] = [NoArg EXCEPT !.source = source, !.id = id]]
    /\ pstep' = [pstep EXCEPT ![d] = @ + 1]
    /\ UNCHANGED <<jobvars, dvars, recvops, peer_incoming, lstream, readers, sendops, handles, buf, rlog, nblog>>

\* receive_any_source: the call.
ClientReceiveAnySource(d, id) ==
    /\ ppc[d] = "idle"
    /\ MayReceive(d, None, id, TRUE)
    /\ ppc' = [ppc EXCEPT ![d] = "poll"]
    /\ parg' = [parg EXCEPT ![d] = [NoArg EXCEPT !.id = id, !.any = TRUE]]
    /\ pstep' = [pstep EXCEPT ![d] = @ + 1]
    /\ UNCHANGED <<jobvars, dvars, recvops, peer_incoming, lstream, readers, sendops, handles, buf, rlog, nblog>>

\* The key the poll of a receive looks for: (source, id), or for
\* receive_any_source any key k with k.1 == id.
WantedAny(k, arg) == arg.any \/ k = <<arg.source, arg.id>>
Wanted(k, arg) == IF arg.any THEN k[2] = arg.id ELSE k = <<arg.source, arg.id>>

\* HashMap::remove of the receives: the entry of the key is gone.
\* Mutant: the entry read with get and left in the map.
RemoveKeeping(r, k) == r
Remove(r, k) == [r EXCEPT ![k] = <<>>]

\* receive / receive_any_source: the turn of the loop that finds a key; the entry
\* is removed and the receiver connects to its address. A turn that finds none
\* changes nothing.
ReceiveTake(d) ==
    /\ ppc[d] = "poll"
    /\ ~LockHeld(d)
    /\ \E k \in Keys :
        /\ readers[d][k] # <<>>
        /\ Wanted(k, parg[d])
        /\ LET a == Head(readers[d][k])
           IN  /\ readers' = [readers EXCEPT ![d] = Remove(@, k)]
               /\ sendops' = [sendops EXCEPT ![a[2]][a[3]].peer = d]
               /\ parg' = [parg EXCEPT ![d].addr = a]
    /\ ppc' = [ppc EXCEPT ![d] = "recv"]
    /\ UNCHANGED <<jobvars, dvars, recvops, peer_incoming, lstream, handles, buf, pstep, rlog, nblog>>

\* receive / receive_any_source: deserialize_from returns; the lock is dropped.
ReceiveReturn(d) ==
    /\ ppc[d] = "recv"
    /\ LET a == parg[d].addr
           wire == sendops[a[2]][a[3]].wire
           data == Decode(wire)
       IN  /\ wire # <<>>
           /\ buf' = [buf EXCEPT ![d] = data]
           /\ rlog' = [rlog EXCEPT ![d] = Append(@, [source |-> parg[d].source,
                                                     id |-> parg[d].id,
                                                     any |-> parg[d].any,
                                                     value |-> data])]
    /\ ppc' = [ppc EXCEPT ![d] = "idle"]
    /\ parg' = [parg EXCEPT ![d] = NoArg]
    /\ UNCHANGED <<jobvars, dvars, recvops, peer_incoming, lstream, readers, sendops, handles, pstep, nblog>>

\* What the program of rank r may pass to receive_nb next.
MayReceiveNb(r, source, id) ==
    CASE scenario = "contend" -> r = 0 /\ source # r /\ id = 0 /\ Len(recvops[r]) < MaxMsgs
      [] scenario = "nb" -> r = 1 /\ source = 0 /\ id = 0 /\ recvops[r] = <<>>
      [] OTHER -> FALSE

RecvOp(source, id) == [source |-> source, id |-> id, state |-> "poll", addr |-> <<>>, value |-> <<>>]

\* receive_nb: spawns the thread that polls readers and returns the handle.
ClientReceiveNb(d, source, id) ==
    /\ ppc[d] = "idle"
    /\ MayReceiveNb(d, source, id)
    /\ recvops' = [recvops EXCEPT ![d] = Append(@, RecvOp(source, id))]
    /\ UNCHANGED <<jobvars, dvars, peer_incoming, lstream, readers, sendops, ppc, parg, handles,
                   buf, pstep, rlog, nblog>>

\* The thread of receive_nb: the turn of its loop that finds the key (source, id);
\* the entry is removed and the thread connects to its address.
ReceiveNbTake(d, n) ==
    /\ n \in DOMAIN recvops[d]
    /\ recvops[d][n].state = "poll"
    /\ ~LockHeld(d)
    /\ LET k == <<recvops[d][n].source, recvops[d][n].id>>
       IN  /\ readers[d][k] # <<>>
           /\ LET a == Head(readers[d][k])
              IN  /\ readers' = [readers EXCEPT ![d] = Remove(@, k)]
                  /\ sendops' = [sendops EXCEPT ![a[2]][a[3]].peer = d]
                  /\ recvops' = [recvops EXCEPT ![d][n].state = "recv", ![d][n].addr = <<a>>]
    /\ UNCHANGED <<jobvars, dvars, peer_incoming, lstream, ppc, parg, handles, buf, pstep, rlog, nblog>>

\* The thread of receive_nb: deserialize_from returns, the thread returns
\* Ok(data) and the lock is dropped.
ReceiveNbReturn(d, n) ==
    /\ n \in DOMAIN recvops[d]
    /\ recvops[d][n].state = "recv"
    /\ LET a == Head(recvops[d][n].addr)
           wire == sendops[a[2]][a[3]].wire
       IN  /\ wire # <<>>
           /\ recvops' = [recvops EXCEPT ![d][n].state = "done", ![d][n].value = <<Decode(wire)>>]
    /\ UNCHANGED <<jobvars, dvars, peer_incoming, lstream, readers, sendops, ppc, parg, handles,
                   buf, pstep, rlog, nblog>>

\* When the program of rank r calls data() on its handles.
MayJoin(r) ==
    CASE scenario = "nb" -> pstep[r] = IF r = 0 THEN 2 ELSE 1
      [] OTHER -> TRUE

\* NbDataHandle::data: the call, which consumes the handle.
ClientData(r, n) ==
    /\ ppc[r] = "idle"
    /\ MayJoin(r)
    /\ n \in handles[r]
    /\ ppc' = [ppc EXCEPT ![r] = "join"]
    /\ parg' = [parg EXCEPT ![r] = [NoArg EXCEPT !.op = n]]
    /\ handles' = [handles EXCEPT ![r] = @ \ {n}]
    /\ UNCHANGED <<jobvars, dvars, recvops, peer_incoming, lstream, readers, sendops, buf, pstep, rlog, nblog>>

\* Mutant: data() returns the value without joining the thread.
DataReturnUnjoined(r) ==
    /\ ppc[r] = "join"
    /\ nblog' = [nblog EXCEPT ![r] = Append(@, [op |-> parg[r].op,
                                                value |-> sendops[r][parg[r].op].data])]
    /\ ppc' = [ppc EXCEPT ![r] = "idle"]
    /\ parg' = [parg EXCEPT ![r] = NoArg]
    /\ UNCHANGED <<jobvars, dvars, recvops, peer_incoming, lstream, readers, sendops, handles, buf, pstep, rlog>>

\* NbDataHandle::data: join returns what the thread returned, Ok(data).
DataReturn(r) ==
    /\ ppc[r] = "join"
    /\ sendops[r][parg[r].op].state = "done"
    /\ nblog' = [nblog EXCEPT ![r] = Append(@, [op |-> parg[r].op,
                                                value |-> sendops[r][parg[r].op].data])]
    /\ ppc' = [ppc EXCEPT ![r] = "idle"]
    /\ parg' = [parg EXCEPT ![r] = NoArg]
    /\ UNCHANGED <<jobvars, dvars, recvops, peer_incoming, lstream, readers, sendops, handles, buf, pstep, rlog>>

\* NbDataHandle::data on the handle of a receive_nb: the call, which consumes
\* the handle.
ClientRecvData(r, n) ==
    /\ ppc[r] = "idle"
    /\ MayJoin(r)
    /\ n \in DOMAIN recvops[r]
    /\ recvops[r][n].state # "joined"
    /\ ppc' = [ppc EXCEPT ![r] = "rjoin"]
    /\ parg' = [parg EXCEPT ![r] = [NoArg EXCEPT !.op = n]]
    /\ UNCHANGED <<jobvars, dvars, recvops, peer_incoming, lstream, readers, sendops, handles, buf,
                   pstep, rlog, nblog>>

\* NbDataHandle::data on the handle of a receive_nb: join returns what the thread
\* returned, Ok(data).
RecvDataReturn(r) ==
    /\ ppc[r] = "rjoin"
    /\ recvops[r][parg[r].op].state = "done"
    /\ LET op == recvops[r][parg[r].op]
       IN  rlog' = [rlog EXCEPT ![r] = Append(@, [source |-> op.source, id |-> op.id,
                                                 any |-> FALSE, value |-> Head(op.value)])]
    /\ recvops' = [recvops EXCEPT ![r][parg[r].op].state = "joined"]
    /\ ppc' = [ppc EXCEPT ![r] = "idle"]
    /\ parg' = [parg EXCEPT ![r] = NoArg]
    /\ UNCHANGED <<jobvars, dvars, peer_incoming, lstream, readers, sendops, handles, buf, pstep, nblog>>

\* =========================================================== discovery
DaemonPort == 4664     \* the port of the coordinator's client_listener

Homes == {<<"home", "user">>, <<"root">>}                \* values of HOME
ConfigHomes == {<<"xdg">>, <<"home", "user", ".config">>}  \* values of XDG_CONFIG_HOME
Partitions == {"p1", "p2"}
NodeNames == {"node1", "node2"}
Ips == {"10.0.0.1", "0.0.0.0"}

\* A path is the sequence of its components; format!("{}/{}", a, b) joins two.
Join(a, b) == a \o b

DaemonConfigNew(name, partition, client_addr, daemon_addr) ==
    [name |-> name, partition |-> partition,
     client_addr |-> client_addr, daemon_addr |-> daemon_addr]

\* serde_json::to_string of a DaemonConfig: the fields by name, in their order.
ToJson(c) ==
    << <<"name", c.name>>, <<"partition", c.partition>>,
       <<"client_addr", c.client_addr>>, <<"daemon_addr", c.daemon_addr>> >>

\* serde_json::from_reader of a DaemonConfig: every field is looked up by name.
Member(json, key) == json[CHOOSE i \in DOMAIN json : json[i][1] = key][2]
FromJson(json) ==
    DaemonConfigNew(Member(json, "name"), Member(json, "partition"),
                    Member(json, "client_addr"), Member(json, "daemon_addr"))

\* The configuration directory of create_partition_file: XDG_CONFIG_HOME, or
\* $HOME/.config when that is not set.
DaemonConfigHome(e) == IF e.xdg # <<>> THEN Head(e.xdg) ELSE Join(e.home, <<".config">>)

\* The path create_partition_file writes the descriptor to.
DaemonFilePath(e, partition, name) ==
    Join(Join(DaemonConfigHome(e), <<"heimdallr", partition>>), <<name>>)

\* The path HeimdallrClient::init opens.
ClientFilePath(e, partition, node) ==
    Join(e.home, <<".config", "heimdallr", partition, node>>)

\* fs::write: the file is created or replaced.
FsWrite(fs, path, contents) ==
    [q \in (DOMAIN fs) \cup {path} |-> IF q = path THEN contents ELSE fs[q]]

\* Daemon::new: the listener is bound and the descriptor file written.
DaemonNew ==
    /\ daemon.pc = "start"
    /\ LET addr == daemon.client_listener_addr
           config == DaemonConfigNew(daemon.name, daemon.partition, addr, addr)
           file_path == DaemonFilePath(env, daemon.partition, daemon.name)
       IN  /\ files' = FsWrite(files, file_path, ToJson(config))
           /\ daemon' = [daemon EXCEPT !.pc = "running", !.file_path = file_path]
    /\ UNCHANGED <<jobvars, pvars, env, lookup>>

\* HeimdallrClient::init: File::open of the descriptor; init panics without it.
ClientOpen ==
    /\ lookup.pc = "start"
    /\ LET path == ClientFilePath(env, lookup.partition, lookup.node)
       IN  lookup' = [lookup EXCEPT !.path = path,
                                    !.pc = IF path \in DOMAIN files THEN "opened" ELSE "panic"]
    /\ UNCHANGED <<jobvars, pvars, env, files, daemon>>

\* HeimdallrClient::init: the descriptor is parsed and the client connects to its
\* client_addr; init panics when nothing listens there.
ClientConnect ==
    /\ lookup.pc = "opened"
    /\ LET daemon_config == FromJson(files[lookup.path])
           listening == daemon.pc = "running"
                            /\ daemon.client_listener_addr = daemon_config.client_addr
       IN  lookup' = [lookup EXCEPT !.client_addr = <<daemon_config.client_addr>>,
                                    !.pc = IF listening THEN "connected" ELSE "panic"]
    /\ UNCHANGED <<jobvars, pvars, env, files, daemon>>

\* The coordinator runs and the clients have found it by its descriptor.
Discovered ==
    LET e == [home |-> <<"root">>, xdg |-> <<>>]
        addr == <<"0.0.0.0", DaemonPort>>
        path == DaemonFilePath(e, "p1", "node1")
    IN  /\ env = e
        /\ files = FsWrite(<<>>, path, ToJson(DaemonConfigNew("node1", "p1", addr, addr)))
        /\ daemon = [name |-> "node1", partition |-> "p1", client_listener_addr |-> addr,
                     pc |-> "running", file_path |-> path]
        /\ lookup = [partition |-> "p1", node |-> "node1", pc |-> "connected",
                     path |-> path, client_addr |-> <<addr>>]

\* ======================================================= specifications
InitJob(s) ==
    /\ scenario = s
    /\ cpc = [r \in Ranks |-> "idle"]
    /\ carg = [r \in Ranks |-> ""]
    /\ cobjs = [r \in Ranks |-> {}]
    /\ cheld = [r \in Ranks |-> {}]
    /\ cdata = [r \in Ranks |-> [n \in Names |-> 0]]
    /\ ops = [r \in Ranks |-> 0]
    /\ daemon_stream = [r \in Ranks |-> <<>>]
    /\ stream = [r \in Ranks |-> <<>>]
    /\ hname = [r \in Ranks |-> ""]
    /\ tbwait = [r \in Ranks |-> "no"]
    /\ tbcount = 0
    /\ barrier = DaemonBarrierNew(job_size)
    /\ mutexes = <<>>
    /\ bsent = [r \in Ranks |-> 0]
    /\ bret = [r \in Ranks |-> 0]
    /\ brepl = [r \in Ranks |-> 0]
    /\ csent = [r \in Ranks |-> [n \in Names |-> 0]]
    /\ crepl = [r \in Ranks |-> [n \in Names |-> 0]]
    /\ reqlog = [n \in Names |-> <<>>]
    /\ grantlog = [n \in Names |-> <<>>]
    /\ incs = [n \in Names |-> 0]
    /\ initval = [n \in Names |-> None]
    /\ finalize = JobFinalizationNew(job_size)
    /\ fsent = [r \in Ranks |-> 0]
    /\ frepl = [r \in Ranks |-> 0]
    /\ fret = [r \in Ranks |-> 0]
    /\ peer_incoming = [r \in Ranks |-> <<>>]
    /\ lstream = [r \in Ranks |-> <<>>]
    /\ readers = [r \in Ranks |-> [k \in Keys |-> <<>>]]
    /\ sendops = [r \in Ranks |-> <<>>]
    /\ ppc = [r \in Ranks |-> "idle"]
    /\ parg = [r \in Ranks |-> NoArg]
    /\ handles = [r \in Ranks |-> {}]
    /\ buf = [r \in Ranks |-> CASE s = "pingpong" /\ r = 0 -> Original
                                [] s = "gather" -> 0
                                [] OTHER -> <<>>]
    /\ pstep = [r \in Ranks |-> 0]
    /\ rlog = [r \in Ranks |-> <<>>]
    /\ nblog = [r \in Ranks |-> <<>>]
    /\ recvops = [r \in Ranks |-> <<>>]

\* run() after its reply loop: the job of job_size clients is registered, every
\* client has its reply and run() waits in the join loop.
Registered ==
    /\ run_pc = "join"
    /\ incoming = <<>>
    /\ reg_pkt = [c \in Procs |-> <<ClientRegistrationPkt("job", job_size, ListenerAddr(c))>>]
    /\ job_name = "job"
    /\ run_job_size = job_size
    /\ clients = <<>>
    /\ client_listeners = [i \in 1 .. job_size |-> ListenerAddr(i - 1)]
    /\ job_threads = [i \in 1 .. job_size |-> i - 1]
    /\ reg_reply = [c \in Procs |-> <<>>]
    /\ registered = [c \in Procs |->
            <<ClientRegistrationReplyPkt(c, [i \in 1 .. job_size |-> ListenerAddr(i - 1)])>>]
    /\ arrivals = [i \in 1 .. job_size |-> i - 1]

InitIn(s) ==
    /\ InitJob(s)
    /\ hpc = [r \in Ranks |-> "recv"]
    /\ Registered
    /\ Discovered

ClientMutexStep(r) ==
    \/ \E n \in Names, v \in MayStart : ClientCreateMutex(r, n, v)
    \/ ClientCreateMutexReturn(r)
    \/ \E n \in Names : ClientLock(r, n)
    \/ ClientLockReturn(r)
    \/ \E n \in Names, d \in {0, 1} : ClientUnlock(r, n, cdata[r][n] + d)

ClientBarrierStep(r) ==
    \/ ClientBarrier(r)
    \/ ClientBarrierReturn(r)

HandlerMutexStep(r) ==
    \/ HandleMutexCreation(r)
    \/ MutexCreationReply(r)
    \/ HandleMutexLockReq(r)
    \/ HandleMutexWriteAndRelease(r)

HandlerBarrierStep(r) ==
    \/ HandleBarrier(r)
    \/ BarrierReply(r)
    \/ BarrierLeaderReset(r)

ThreadBarrierStep(r) ==
    \/ ThreadBarrierWait(r)
    \/ ThreadBarrierWake(r)

ClientStep(r) == ClientMutexStep(r) \/ ClientBarrierStep(r)
HandlerStep(r) == HandlerMutexStep(r) \/ HandlerBarrierStep(r) \/ ThreadBarrierStep(r)

\* OS threads: every client and every handler thread that can run does run.
Fairness == \A r \in Ranks : WF_vars(ClientStep(r)) /\ WF_vars(HandlerStep(r))

\* Any client program of at most MaxOps calls per rank.
Init == InitIn("free")
Next == \E r \in Ranks : ClientStep(r) \/ HandlerStep(r)
Spec == Init /\ [][Next]_vars

\* Every rank calls barrier() MaxEpochs times (_barrier_benchmark).
InitBarriers == InitIn("barriers")
NextBarriers ==
    \E r \in Ranks : ClientBarrierStep(r) \/ HandlerBarrierStep(r) \/ ThreadBarrierStep(r)
SpecBarriers == InitBarriers /\ [][NextBarriers]_vars /\ Fairness

\* Every rank creates "testmutex" with 0, adds 1 under the lock MaxCycles times,
\* calls barrier(), then locks and reads (_mutex_benchmark with a final barrier).
InitCounter == InitIn("counter")
SpecCounter == InitCounter /\ [][Next]_vars

\* Every rank creates "testmutex" and then locks and releases it for ever.
InitCycle == InitIn("cycle")
NextCycle ==
    \E r \in Ranks : ClientMutexStep(r) \/ HandlerMutexStep(r) \/ ThreadBarrierStep(r)
SpecCycle == InitCycle /\ [][NextCycle]_vars /\ Fairness

\* Every rank creates "testmutex" with 0 and then locks and releases it or
\* writes a MutexWriteAndReleasePkt without holding it, MaxOps times in all.
InitRelease == InitIn("release")
NextRelease ==
    \E r \in Ranks :
        \/ ClientCreateMutex(r, "testmutex", 0)
        \/ ClientCreateMutexReturn(r)
        \/ ClientLock(r, "testmutex")
        \/ ClientLockReturn(r)
        \/ ClientUnlock(r, "testmutex", cdata[r]["testmutex"])
        \/ \E value \in {0, 1} : ClientReleaseUnheld(r, "testmutex", value)
        \/ HandlerMutexStep(r)
        \/ ThreadBarrierStep(r)
SpecRelease == InitRelease /\ [][NextRelease]_vars

\* Every rank calls HeimdallrMutex::new("testmutex", 0) and barrier(), MaxCalls
\* calls in all, in an order of its own.
InitCollectives == InitIn("collectives")
NextCollectives ==
    \E r \in Ranks :
        \/ ClientCreateMutex(r, "testmutex", 0)
        \/ ClientCreateMutexReturn(r)
        \/ ClientBarrierStep(r)
        \/ HandleMutexCreation(r)
        \/ MutexCreationReply(r)
        \/ HandlerBarrierStep(r)
        \/ ThreadBarrierStep(r)
SpecCollectives == InitCollectives /\ [][NextCollectives]_vars

\* Every rank calls HeimdallrMutex::new("testmutex", 0) and barrier(), at most
\* MaxOps calls in an order of its own, and then drops its HeimdallrClient.
InitShutdown == InitIn("shutdown")
NextShutdown ==
    \/ \E r \in Ranks :
        \/ ClientCreateMutex(r, "testmutex", 0)
        \/ ClientCreateMutexReturn(r)
        \/ ClientBarrierStep(r)
        \/ ClientFinalize(r)
        \/ ClientFinalizeReturn(r)
        \/ ClientConnectionClosed(r)
        \/ HandleMutexCreation(r)
        \/ MutexCreationReply(r)
        \/ HandlerBarrierStep(r)
        \/ HandleFinalize(r)
        \/ FinalizeReply(r)
        \/ ThreadBarrierStep(r)
    \/ RunJoin
SpecShutdown == InitShutdown /\ [][NextShutdown]_vars

\* The registration of a job: client processes connect in any order, with the
\* job name and the size each was started with.
\* run() before its first accept.
Unregistered ==
    /\ hpc = [r \in Ranks |-> "unspawned"]
    /\ run_pc = "accept"
    /\ incoming = <<>>
    /\ reg_pkt = [c \in Procs |-> <<>>]
    /\ job_name = ""
    /\ run_job_size = 0
    /\ clients = <<>>
    /\ client_listeners = <<>>
    /\ job_threads = <<>>
    /\ reg_reply = [c \in Procs |-> <<>>]
    /\ registered = [c \in Procs |-> <<>>]
    /\ arrivals = <<>>

InitRegistration ==
    /\ InitJob("registration")
    /\ Unregistered
    /\ Discovered
NextRegistration ==
    \/ \E c \in Procs, job \in JobNames, size \in Sizes : ClientInit(c, job, size)
    \/ \E c \in Procs : ClientInitReturn(c)
    \/ RunAccept
    \/ RunReply
\* run() is one thread that is never blocked but in incoming() and join().
SpecRegistration ==
    InitRegistration /\ [][NextRegistration]_vars /\ WF_vars(RunAccept) /\ WF_vars(RunReply)

\* The threads of a client process: its main thread, its listener thread, the
\* threads of its sends.
PeerMainStep(r) ==
    \/ \E dest \in Ranks, id \in Tags : ClientSend(r, dest, id) \/ ClientSendNb(r, dest, id)
    \/ \E source \in Ranks, id \in Tags : ClientReceive(r, source, id)
    \/ \E id \in Tags : ClientReceiveAnySource(r, id)
    \/ ReceiveTake(r)
    \/ ReceiveReturn(r)
    \/ \E n \in 1 .. MaxMsgs : ClientData(r, n)
    \/ DataReturn(r)
PeerSendStep(r) ==
    \E n \in 1 .. (2 * MaxIters + MaxMsgs) :
        SendConnect(r, n) \/ SendAnnounce(r, n) \/ SendTransfer(r, n)
PeerListenerStep(r) == ListenerAccept(r) \/ ListenerInsert(r)
\* OS threads: every thread of every client process that can run does run.
PeerFairness ==
    \A r \in Ranks :
        WF_vars(PeerMainStep(r)) /\ WF_vars(PeerListenerStep(r)) /\ WF_vars(PeerSendStep(r))

\* Any program of at most MaxMsgs send, send_nb, receive and receive_any_source
\* calls per rank, with data() on the handles.
InitPeers == InitIn("p2p")
NextPeers == \E r \in Ranks : PeerMainStep(r) \/ PeerSendStep(r) \/ PeerListenerStep(r)
SpecPeers == InitPeers /\ [][NextPeers]_vars

\* The ping-pong of the benchmark: MaxIters times, rank 0 sends its buffer with
\* tag 0 and receives with tag 1, rank 1 receives with tag 0 and sends with tag 1.
InitPingPong == InitIn("pingpong")
NextPingPong ==
    \E r \in Ranks :
        \/ \E dest \in Ranks, id \in Tags : ClientSend(r, dest, id)
        \/ \E source \in Ranks, id \in Tags : ClientReceive(r, source, id)
        \/ ReceiveTake(r)
        \/ ReceiveReturn(r)
        \/ PeerSendStep(r)
        \/ PeerListenerStep(r)
SpecPingPong == InitPingPong /\ [][NextPingPong]_vars /\ PeerFairness

\* _receive_any_source_test: every rank but 0 sends to rank 0 with its rank as
\* the tag, rank 0 calls receive_any_source(1), ..., receive_any_source(N - 1).
InitAnySource == InitIn("anysource")
NextAnySource ==
    \E r \in Ranks :
        \/ \E dest \in Ranks, id \in Tags : ClientSend(r, dest, id)
        \/ \E id \in Tags : ClientReceiveAnySource(r, id)
        \/ ReceiveTake(r)
        \/ ReceiveReturn(r)
        \/ PeerSendStep(r)
        \/ PeerListenerStep(r)
SpecAnySource == InitAnySource /\ [][NextAnySource]_vars /\ PeerFairness

\* _gather_test: every rank but 0 sends its rank to rank 0 twice with tag 0;
\* rank 0 receives from 1, ..., N-1 and then from N-1, ..., 1.
InitGather == InitIn("gather")
NextGather ==
    \E r \in Ranks :
        \/ ClientSend(r, 0, 0)
        \/ \E source \in Ranks : ClientReceive(r, source, 0)
        \/ ReceiveTake(r)
        \/ ReceiveReturn(r)
        \/ PeerSendStep(r)
        \/ PeerListenerStep(r)
SpecGather == InitGather /\ [][NextGather]_vars /\ PeerFairness

\* An exchange: every rank calls send once and receive once, with tag 0, with
\* the peers and in the order its program chooses.
InitExchange == InitIn("exchange")
NextExchange ==
    \E r \in Ranks :
        \/ \E dest \in Ranks : ClientSend(r, dest, 0)
        \/ \E source \in Ranks : ClientReceive(r, source, 0)
        \/ ReceiveTake(r)
        \/ ReceiveReturn(r)
        \/ PeerSendStep(r)
        \/ PeerListenerStep(r)
SpecExchange == InitExchange /\ [][NextExchange]_vars

\* Competing receives: rank 0 starts up to MaxMsgs receive_nb threads and calls
\* receive or receive_any_source once, all with tag 0; every other rank sends
\* rank 0 one message with tag 0, by send or send_nb.
InitContend == InitIn("contend")
NextContend ==
    \E r \in Ranks :
        \/ ClientSend(r, 0, 0) \/ ClientSendNb(r, 0, 0)
        \/ \E source \in Ranks : ClientReceive(r, source, 0) \/ ClientReceiveNb(r, source, 0)
        \/ ClientReceiveAnySource(r, 0)
        \/ ReceiveTake(r)
        \/ ReceiveReturn(r)
        \/ \E n \in 1 .. MaxMsgs : ReceiveNbTake(r, n) \/ ReceiveNbReturn(r, n)
        \/ PeerSendStep(r)
        \/ PeerListenerStep(r)
SpecContend == InitContend /\ [][NextContend]_vars

\* The test of the non-blocking operations: rank 0 calls send_nb(buf, 1, 0),
\* send(s, 1, 1) and data() on the handle; rank 1 calls receive_nb(0, 0),
\* receive(0, 1) and data() on the handle; the other ranks do nothing.
NbMainStep(r) ==
    \/ ClientSendNb(r, 1, 0)
    \/ ClientSend(r, 1, 1)
    \/ ClientReceiveNb(r, 0, 0)
    \/ ClientReceive(r, 0, 1)
    \/ ReceiveTake(r)
    \/ ReceiveReturn(r)
    \/ ClientData(r, 1)
    \/ DataReturn(r)
    \/ ClientRecvData(r, 1)
    \/ RecvDataReturn(r)
NbThreadStep(r) == ReceiveNbTake(r, 1) \/ ReceiveNbReturn(r, 1)
InitNb == InitIn("nb")
NextNb ==
    \E r \in Ranks :
        \/ NbMainStep(r)
        \/ NbThreadStep(r)
        \/ PeerSendStep(r)
        \/ PeerListenerStep(r)
SpecNb ==
    /\ InitNb /\ [][NextNb]_vars
    /\ \A r \in Ranks :
        /\ WF_vars(NbMainStep(r)) /\ WF_vars(NbThreadStep(r))
        /\ WF_vars(PeerSendStep(r)) /\ WF_vars(PeerListenerStep(r))

\* The halo exchange of one iteration of calculate, every rank of the job taking
\* part.
HaloMainStep(r) ==
    \/ \E dest \in Ranks, id \in {1, 2} : ClientSend(r, dest, id)
    \/ \E source \in Ranks, id \in {1, 2} : ClientReceive(r, source, id)
    \/ ReceiveTake(r)
    \/ ReceiveReturn(r)
InitHalo == InitIn("halo")
NextHalo == \E r \in Ranks : HaloMainStep(r) \/ PeerSendStep(r) \/ PeerListenerStep(r)
SpecHalo ==
    /\ InitHalo /\ [][NextHalo]_vars
    /\ \A r \in Ranks :
        WF_vars(HaloMainStep(r)) /\ WF_vars(PeerSendStep(r)) /\ WF_vars(PeerListenerStep(r))

\* The start of a job: the clients register, run() sends the replies one after
\* another, and each client goes on as soon as it has its reply: rank 0 sends
\* one message to every other rank in turn, every other rank receives from rank 0.
InitStartup ==
    /\ InitJob("startup")
    /\ Unregistered
    /\ Discovered
NextStartup ==
    \/ \E c \in Procs : ClientInit(c, "job", job_size) \/ ClientInitReturn(c)
    \/ RunAccept
    \/ RunReply
    \/ \E r \in Ranks :
        \/ \E dest \in Ranks : ClientSend(r, dest, 0)
        \/ ClientReceive(r, 0, 0)
        \/ ReceiveTake(r)
        \/ ReceiveReturn(r)
        \/ PeerSendStep(r)
        \/ PeerListenerStep(r)
SpecStartup ==
    /\ InitStartup /\ [][NextStartup]_vars
    /\ WF_vars(RunAccept) /\ WF_vars(RunReply)
    /\ \A c \in Procs : WF_vars(ClientInit(c, "job", job_size) \/ ClientInitReturn(c))
    /\ PeerFairness

\* The registration of a job while other processes connect to the coordinator
\* too: every process either registers, with a job name and a size of its own,
\* or sends a Barrier packet or bytes that are no packet.
IntakeNames == {"job", "other"}
InitIntake ==
    /\ InitJob("intake")
    /\ Unregistered
    /\ Discovered
NextIntake ==
    \/ \E c \in Procs, job \in IntakeNames, size \in Sizes : ClientInit(c, job, size)
    \/ \E c \in Procs, kind \in OtherKinds : StrayConnect(c, kind)
    \/ \E c \in Procs : ClientInitReturn(c)
    \/ RunAccept
    \/ RunReply
SpecIntake == InitIntake /\ [][NextIntake]_vars /\ WF_vars(RunAccept) /\ WF_vars(RunReply)

\* The start of a coordinator and of one client on the same host, each with its
\* own arguments, under any environment; the client may start first.
InitDiscovery ==
    /\ InitJob("discovery")
    /\ Unregistered
    /\ env \in [home : Homes, xdg : {<<>>} \cup {<<c>> : c \in ConfigHomes}]
    /\ files = <<>>
    /\ daemon \in [name : NodeNames, partition : Partitions,
                   client_listener_addr : {<<ip, DaemonPort>> : ip \in Ips},
                   pc : {"start"}, file_path : {<<>>}]
    /\ lookup \in [partition : Partitions, node : NodeNames, pc : {"start"},
                   path : {<<>>}, client_addr : {<<>>}]
NextDiscovery == DaemonNew \/ ClientOpen \/ ClientConnect
SpecDiscovery == InitDiscovery /\ [][NextDiscovery]_vars

\* =============================================================== claims
IsPrefix(a, b) == Len(a) <= Len(b) /\ SubSeq(b, 1, Len(a)) = a

\* Rank r is inside a lock scope of mutex n: it has read the value and its
\* MutexWriteAndRelease has not been processed yet.
Releasing(r, n) ==
    \E i \in DOMAIN daemon_stream[r] :
        /\ daemon_stream[r][i].kind = "MutexWriteAndRelease"
        /\ daemon_stream[r][i].name = n
InScope(r, n) == n \in cheld[r] \/ Releasing(r, n)

\* The ranks waiting in the queue of mutex n.
Waiting(n) == {mutexes[n].access_queue[i] : i \in DOMAIN mutexes[n].access_queue}

\* C1: in every barrier epoch no rank is sent its BarrierReply, and so no rank
\* returns from barrier(), before all ranks have sent the Barrier packet of that
\* epoch: the k-th reply to a rank needs a k-th Barrier packet of every rank.
\* The handlers of MutexCreation and Barrier packets meet at the same
\* thread_barrier; a handler in the MutexCreation arm completes a generation a
\* Barrier handler waits in, the leader of the second wait is then not in the
\* Barrier arm, reset() is skipped and `finished` stays set for the next epoch.
C1_BarrierSafety ==
    \A r, s \in Ranks : brepl[r] <= bsent[s] /\ bret[r] <= bsent[s]

\* C2: when every rank only calls barrier(), no rank returns from its (k+1)-th
\* barrier() before every rank has returned from its k-th.
C2_EpochsSerialized ==
    \A r, s \in Ranks : bret[r] <= bret[s] + 1

C2_Witness == \E r, s \in Ranks : bret[r] = 2 /\ bret[s] = 1

\* C3: when every rank only calls barrier(), every call returns, in every
\* epoch, after exactly one BarrierReply has been written to the rank for it.
C3_BarrierLiveness ==
    /\ [](\A r \in Ranks : brepl[r] <= bsent[r])
    /\ \A r \in Ranks : \A k \in 1 .. MaxEpochs :
          (bsent[r] = k) ~> (bret[r] = k /\ brepl[r] = k)

C3_Witness == \A r \in Ranks : bret[r] = MaxEpochs /\ brepl[r] = MaxEpochs

\* C4: at most one rank is inside a lock scope of a mutex at any time.
C4_MutualExclusion ==
    \A n \in Names : \A r, s \in Ranks : InScope(r, n) /\ InScope(s, n) => r = s

C4_Witness ==
    \E n \in DOMAIN mutexes : \E r \in Ranks : n \in cheld[r] /\ Waiting(n) # {}

\* C5: locked holds exactly when current_owner is a rank, the owner is not in
\* access_queue, and no rank is in access_queue twice.
C5_MutexStateInvariant ==
    \A n \in DOMAIN mutexes :
        LET m == mutexes[n]
        IN  /\ m.locked <=> m.current_owner # None
            /\ m.current_owner \notin Waiting(n)
            /\ Cardinality(Waiting(n)) = Len(m.access_queue)

C5_Witness ==
    \E n \in DOMAIN mutexes :
        mutexes[n].locked /\ Waiting(n) # {} /\ Len(grantlog[n]) >= 2

\* C6: the ranks are granted a mutex in the order in which the coordinator
\* processed their MutexLockReq packets.
C6_FifoGrants ==
    \A n \in Names : IsPrefix(grantlog[n], reqlog[n])

C6_Witness == \E n \in DOMAIN mutexes : Len(mutexes[n].access_queue) >= 2

\* C7: when every holder releases, every rank that has sent a MutexLockReq is
\* eventually granted the mutex.
C7_NoStarvation ==
    \A r \in Ranks : (cpc[r] = "lock") ~> ("testmutex" \in cheld[r])

C7_Witness ==
    \E r \in Ranks : cpc[r] = "lock" /\ "testmutex" \in DOMAIN mutexes
                     /\ r \in Waiting("testmutex") /\ Len(mutexes["testmutex"].access_queue) >= 2

\* C8: the value a rank is granted is the start value plus the +1 updates made
\* so far, the value a release carries likewise, and the canonical value equals
\* it whenever no release is on its way.
C8_NoLostUpdate ==
    \A n \in DOMAIN mutexes :
        LET v == initval[n] + incs[n]
        IN  /\ \A r \in Ranks : n \in cheld[r] => cdata[r][n] = v
            /\ \A r \in Ranks : cpc[r] = "lock" /\ carg[r] = n =>
                  \A i \in DOMAIN stream[r] :
                      stream[r][i].kind = "raw" => Deserialize(stream[r][i].data) = v
            /\ \A r \in Ranks : \A i \in DOMAIN daemon_stream[r] :
                  (daemon_stream[r][i].kind = "MutexWriteAndRelease"
                      /\ daemon_stream[r][i].name = n)
                  => Deserialize(daemon_stream[r][i].data) = v
            /\ (\A r \in Ranks : ~Releasing(r, n)) => Deserialize(mutexes[n].data) = v

C8_Witness == \E n \in Names : \E r \in Ranks : n \in cheld[r] /\ incs[n] >= 2

\* C9: in the counter program every rank reads MaxCycles * N after the barrier.
C9_CounterAfterBarrier ==
    \A r \in Ranks :
        bret[r] = 1 /\ "testmutex" \in cheld[r] => cdata[r]["testmutex"] = MaxCycles * job_size

C9_Witness == \E r \in Ranks : bret[r] = 1 /\ "testmutex" \in cheld[r]

\* C10: a MutexCreationReply for a name is written to a rank only when every
\* rank has sent MutexCreation for the name and the mutex is constructed; a
\* creating rank is sent at most one reply per creation, carrying the name it
\* asked for; and when all ranks have only created that name so far, a rank
\* whose handler is through with its packets has been sent exactly one reply
\* per creation.
C10_CollectiveCreation ==
    /\ \A r \in Ranks : \A n \in Names :
          (n \in cobjs[r] \/ crepl[r][n] > 0) =>
              /\ n \in DOMAIN mutexes
              /\ mutexes[n].constructed
              /\ \A s \in Ranks : csent[s][n] >= 1
    /\ \A r \in Ranks : \A n \in Names : crepl[r][n] <= csent[r][n]
    /\ \A r \in Ranks : cpc[r] = "create" =>
          \A i \in DOMAIN stream[r] :
              stream[r][i].kind = "MutexCreationReply" /\ stream[r][i].name = carg[r]
    /\ \A n \in Names :
          (\A r \in Ranks : ops[r] = csent[r][n]) =>
              \A r \in Ranks :
                  hpc[r] = "recv" /\ daemon_stream[r] = <<>> => crepl[r][n] = csent[r][n]

C10_Witness == \E n \in Names : \A r \in Ranks : n \in cobjs[r]

\* C11: the canonical initial value of a mutex is the start_data of the first
\* MutexCreation packet the coordinator processes for its name (the new mutex is
\* unlocked, without owner and without waiters); every later MutexCreation for
\* that name leaves data, locked, current_owner and access_queue as they were.
C11_FirstCreationWins ==
    [][\A r \in Ranks :
          (Receives(r, "MutexCreation") /\ hpc'[r] = "mc_wait") =>
             LET pkt == Head(daemon_stream[r])
                 new == mutexes'[pkt.name]
             IN  IF pkt.name \in DOMAIN mutexes
                 THEN LET old == mutexes[pkt.name]
                      IN  /\ new.data = old.data
                          /\ new.locked = old.locked
                          /\ new.current_owner = old.current_owner
                          /\ new.access_queue = old.access_queue
                 ELSE /\ new.data = pkt.data
                      /\ new.locked = FALSE
                      /\ new.current_owner = None
                      /\ new.access_queue = <<>>]_vars

\* A repeated creation with another start value has been processed while the
\* mutex is held and has a waiter.
C11_Witness ==
    \E r \in Ranks : \E n \in DOMAIN mutexes :
        /\ hpc[r] = "mc_wait" /\ hname[r] = n /\ csent[r][n] = 2 /\ daemon_stream[r] = <<>>
        /\ mutexes[n].locked /\ mutexes[n].access_queue # <<>>

\* The registration replies written so far, delivered or not, each with the
\* process it is for.
Replies ==
    {<<c, Head(reg_reply[c])>> : c \in {d \in Procs : reg_reply[d] # <<>>}} \cup
    {<<c, Head(registered[c])>> : c \in {d \in Procs : registered[d] # <<>>}}

\* The processes run() has accepted a registration of.
Accepted == {arrivals[k] : k \in 1 .. Len(client_listeners)}

\* C12: every ClientRegistrationReply of a job of size N (the size run() builds
\* the Job with) carries N listener addresses, the k-th is the address the k-th
\* process to register advertised, the id is the arrival index of the process
\* the reply is for, no id is given twice, and when all replies are written the
\* ids are exactly 0 .. N-1.
C12_RegistrationResult ==
    /\ \A p \in Replies :
          LET reply == p[2]
          IN  /\ Len(reply.client_listeners) = run_job_size
              /\ \A k \in 1 .. Len(reply.client_listeners) :
                    reply.client_listeners[k] = Head(reg_pkt[arrivals[k]]).listener_addr
              /\ reply.id \in 0 .. (run_job_size - 1)
              /\ arrivals[reply.id + 1] = p[1]
    /\ \A p, q \in Replies : p[2].id = q[2].id => p[1] = q[1]
    /\ run_pc = "join" => {p[2].id : p \in Replies} = 0 .. (run_job_size - 1)

\* A job of NumRanks processes is registered, not in the order of the process
\* numbers, and every process has its reply.
C12_Witness ==
    /\ run_pc = "join" /\ run_job_size = NumRanks
    /\ \A c \in Procs : registered[c] # <<>>
    /\ arrivals[1] # 0

\* C13: the job size is the size of the first registration to arrive, whatever
\* the sizes of later registrations and whatever job name the first one carries.
C13_JobSizeIsFirstSize ==
    client_listeners # <<>> => run_job_size = Head(reg_pkt[arrivals[1]]).size

\* C14: no ClientRegistrationReply is sent and no handler thread is started
\* before N clients have registered (N the job size of run()), and once N have
\* registered every one of them is sent a reply.
C14_RepliesAfterAllRegistered ==
    /\ []((Replies # {} \/ \E r \in Ranks : hpc[r] # "unspawned") =>
            (Len(client_listeners) = run_job_size /\ run_pc \in {"reply", "join"}))
    /\ (run_pc = "reply") ~>
            (\A c \in Accepted : reg_reply[c] # <<>> \/ registered[c] # <<>>)

\* A job of two is registered and answered while a third process has connected.
C14_Witness ==
    /\ run_pc = "join" /\ run_job_size = 2 /\ Len(arrivals) = 3
    /\ \A c \in Accepted : registered[c] # <<>>

\* C15: payload integrity. Every value a receive(s, t) at rank d has returned
\* is the value passed to a send (send, send_slice or send_nb) that rank s issued
\* to d with tag t; the payloads of the scenario differ from send to send, so a
\* payload announced by another sender or under another tag would not qualify.
C15_PayloadIntegrity ==
    \A d \in Ranks : \A i \in DOMAIN rlog[d] :
        LET e == rlog[d][i]
        IN  ~e.any =>
                \E n \in DOMAIN sendops[e.source] :
                    LET op == sendops[e.source][n]
                    IN  op.dest = d /\ op.id = e.id /\ op.data = e.value

\* Rank 0 has received from two different senders by receive(s, t), one of the
\* two messages sent by send_nb and the other by send.
C15_Witness ==
    /\ Len(rlog[0]) = 2
    /\ ~rlog[0][1].any /\ ~rlog[0][2].any
    /\ rlog[0][1].source # rlog[0][2].source
    /\ sendops[rlog[0][1].source][1].nb
    /\ ~sendops[rlog[0][2].source][1].nb

\* The ping-pong loop has run MaxIters times on ranks 0 and 1 and rank 0 holds
\* the buffer it started with.
PingPongDone ==
    /\ \A r \in {0, 1} : ppc[r] = "idle" /\ pstep[r] = 2 * MaxIters
    /\ Len(rlog[0]) = MaxIters /\ Len(rlog[1]) = MaxIters
    /\ buf[0] = Original

\* C16: under fair scheduling every blocking send and every blocking receive of
\* the ping-pong returns, whichever of the two is issued first, and the exchange
\* ends after its MaxIters iterations with rank 0 holding the original buffer.
C16_PingPongTerminates ==
    /\ \A r \in Ranks : (ppc[r] # "idle") ~> (ppc[r] = "idle")
    /\ <>[]PingPongDone

\* The exchange has ended and every value rank 0 received is the original buffer.
C16_Witness ==
    /\ PingPongDone
    /\ \A i \in DOMAIN rlog[0] : rlog[0][i].value = Original
    /\ \A n \in DOMAIN sendops[1] : sendops[1][n].state = "done"

\* Every receive_any_source call of rank 0 has returned and every send of the
\* other ranks has: the k-th call returned the message of rank k.
AnySourceDone ==
    /\ \A r \in Ranks : ppc[r] = "idle"
    /\ Len(rlog[0]) = job_size - 1
    /\ \A k \in 1 .. (job_size - 1) :
        /\ rlog[0][k].any /\ rlog[0][k].id = k /\ rlog[0][k].value = Payload(k, 1)
        /\ Len(sendops[k]) = 1 /\ sendops[k][1].state = "done" /\ sendops[k][1].peer = 0

\* C17: the turn of receive_any_source(tag) that finds a key takes one whose tag
\* is the requested tag, removes that entry and no other, and connects to its
\* address; in _receive_any_source_test every value rank 0 has got from
\* receive_any_source(k) is the message of rank k, no message is delivered twice,
\* and under fair scheduling all calls return with every message delivered.
C17_ReceiveAnySource ==
    /\ [][\A d \in Ranks :
            (ppc[d] = "poll" /\ ppc'[d] = "recv" /\ parg[d].any) =>
                \E k \in Keys :
                    /\ k[2] = parg[d].id
                    /\ readers[d][k] # <<>>
                    /\ parg'[d].addr = Head(readers[d][k])
                    /\ readers'[d] = [readers[d] EXCEPT ![k] = <<>>]]_vars
    /\ [](\A i \in DOMAIN rlog[0] :
            /\ rlog[0][i].any => rlog[0][i].value = Payload(rlog[0][i].id, 1)
            /\ \A j \in DOMAIN rlog[0] : rlog[0][i].value = rlog[0][j].value => i = j)
    /\ <>[]AnySourceDone

\* All calls have returned: at least two ranks have sent, and the last call of
\* rank 0 got the message of the last rank.
C17_Witness ==
    /\ AnySourceDone
    /\ job_size >= 3
    /\ DeserializeVec(sendops[job_size - 1][1].wire) = rlog[0][job_size - 1].value

\* C18: data() on the handle of a send_nb has returned only after the transfer
\* was completed, that is a receiver had connected to the op_listener of the send
\* and the serialized payload was written to it, and the value it returned is
\* the value passed to send_nb. NbDataHandle has no other method than data().
C18_NonBlockingSend ==
    \A r \in Ranks : \A i \in DOMAIN nblog[r] :
        LET e == nblog[r][i]
            op == sendops[r][e.op]
        IN  /\ op.nb
            /\ op.peer # None
            /\ op.wire = SerializeVec(e.value)
            /\ e.value = Payload(r, e.op)

\* data() has returned on the sender while the receiver, connected to the
\* op_listener of that send, has not returned from receive yet.
C18_Witness ==
    \E r \in Ranks :
        /\ nblog[r] # <<>>
        /\ ppc[0] = "recv"
        /\ parg[0].addr = OpAddr(r, nblog[r][1].op)

\* C21: when a client whose partition and node are the partition and name of
\* the running coordinator opens its descriptor path, that path is the path the
\* coordinator wrote its descriptor to, whatever HOME and XDG_CONFIG_HOME are;
\* and the client_addr a client has read from there is the address the
\* coordinator listens on.
C21_DescriptorDiscovery ==
    [][(/\ daemon.pc = "running"
        /\ lookup.partition = daemon.partition
        /\ lookup.node = daemon.name) =>
            /\ (lookup.pc = "start" /\ lookup'.pc # "start") =>
                    (lookup'.path = daemon.file_path /\ lookup'.pc = "opened")
            /\ (lookup.pc = "opened" /\ lookup'.pc # "opened") =>
                    (lookup'.client_addr = <<daemon.client_listener_addr>>
                        /\ lookup'.pc = "connected")]_vars

\* run() takes the connection at the head of incoming(), which carries a packet
\* of the given kind.
Accepts(kind) ==
    /\ run_pc = "accept"
    /\ incoming # <<>>
    /\ Head(reg_pkt[Head(incoming)]).kind = kind
    /\ incoming' = Tail(incoming)

\* C22: the turn of the registration loop that meets an undecodable registration
\* leaves the coordinator running in that loop, with the registrations it has
\* accumulated unchanged.
C22_MalformedRegistration ==
    [][Accepts("undecodable") =>
            /\ run_pc' = "accept"
            /\ UNCHANGED <<job_name, run_job_size, clients, client_listeners>>]_vars

\* C23: the turn of the registration loop that meets a non-registration packet,
\* be it before the first registration, leaves the registered clients and their
\* listener addresses unchanged and the coordinator accepting.
C23_StrayPacketIgnored ==
    [][Accepts("Barrier") =>
            /\ run_pc' = "accept"
            /\ UNCHANGED <<job_name, run_job_size, clients, client_listeners>>]_vars

\* The processes run() has counted as clients of the job.
CountedProcs ==
    {c \in Procs : (\E i \in DOMAIN clients : clients[i] = c)
                      \/ reg_reply[c] # <<>> \/ registered[c] # <<>>}

\* C25: every registration run() has counted towards the job, or has given a
\* rank to, carries the job name of the first registration.
C25_SameJobName == \A c \in CountedProcs : Head(reg_pkt[c]).job = job_name

\* Every receive of rank 0 and every send of the other ranks has returned, and
\* rank 0 has got 1, ..., N-1 and then N-1, ..., 1.
GatherDone ==
    /\ \A r \in Ranks : ppc[r] = "idle"
    /\ \A s \in Ranks \ {0} :
            Len(sendops[s]) = 2 /\ \A n \in {1, 2} : sendops[s][n].state = "done"
    /\ Len(rlog[0]) = 2 * (job_size - 1)
    /\ \A k \in DOMAIN rlog[0] : rlog[0][k].value = GatherSource(k - 1)

BarriersTaken(r) ==
    bsent[r] - Cardinality({i \in DOMAIN daemon_stream[r] : daemon_stream[r][i].kind = "Barrier"})

\* C26: the DaemonBarrier is reset by one handler at a time, and only when it is
\* finished and every rank has been sent the BarrierReply of the epoch (so once
\* per epoch); and a handler registers a rank's next Barrier packet only when
\* every rank has been sent the replies of the rank's earlier epochs and the
\* DaemonBarrier has been reset since.
C26_ResetOncePerEpoch ==
    /\ [](\A r, s \in Ranks : hpc[r] = "b_reset" /\ hpc[s] = "b_reset" => r = s)
    /\ [][\A r \in Ranks :
            /\ (hpc[r] = "b_reset" /\ hpc'[r] # "b_reset") =>
                    /\ barrier.finished
                    /\ \A s \in Ranks : brepl[s] = brepl[r] /\ brepl[s] >= 1
            /\ (Receives(r, "Barrier") /\ hpc'[r] = "b_wait1") =>
                    /\ ~barrier.finished
                    /\ barrier.streams[r] = None
                    /\ \A s \in Ranks : brepl[s] >= BarriersTaken(r)]_vars

\* The kind of message a client blocked at `pc` reads from its control connection.
Awaits(pc, kind) ==
    \/ pc = "create" /\ kind = "MutexCreationReply"
    \/ pc = "lock" /\ kind = "raw"
    \/ pc = "barrier" /\ kind = "BarrierReply"
    \/ pc = "finalize" /\ kind = "FinalizeReply"

\* The connections the next step of the handler of rank h writes to.
WritesOf(h) ==
    IF hpc[h] = "mc_reply" THEN (IF mutexes[hname[h]].constructed THEN {h} ELSE {})
    ELSE IF hpc[h] = "b_reply" THEN (IF barrier.finished THEN {h} ELSE {})
    ELSE IF hpc[h] = "f_reply" THEN (IF finalize.finished THEN {h} ELSE {})
    ELSE IF hpc[h] = "recv" /\ daemon_stream[h] # <<>> /\ Head(daemon_stream[h]).name \in DOMAIN mutexes
    THEN LET pkt == Head(daemon_stream[h])
             res == IF pkt.kind = "MutexLockReq" THEN access_request(mutexes[pkt.name], pkt.id).writes
                    ELSE IF pkt.kind = "MutexWriteAndRelease"
                    THEN write_and_release(mutexes[pkt.name], pkt.data).writes
                    ELSE <<>>
         IN  {res[i].to : i \in DOMAIN res}
    ELSE {}

\* The handlers whose next step writes to the control connection of rank r.
Writers(r) == {h \in Ranks : r \in WritesOf(h)}

\* C27: on every rank's control connection at most one handler is about to
\* write at any time, and only while nothing written earlier is still unread
\* (a grant written by another rank's handler never meets a reply of the rank's
\* own handler); a message on the connection is the one the rank's pending
\* operation is waiting to read.
C27_SingleWriter ==
    \A r \in Ranks :
        /\ Cardinality(Writers(r)) <= 1
        /\ Len(stream[r]) <= 1
        /\ Writers(r) # {} => (stream[r] = <<>> /\ cpc[r] \in {"create", "lock", "barrier", "finalize"})
        /\ stream[r] # <<>> => Awaits(cpc[r], Head(stream[r]).kind)

\* Witness: a rank is blocked in lock() and the handler of another rank, which
\* has the release of the owner to process, is about to write the grant to it.
C27_Witness ==
    \E r \in Ranks : \E h \in Ranks \ {r} :
        /\ cpc[r] = "lock"
        /\ Writers(r) = {h}
        /\ hpc[h] = "recv"
        /\ daemon_stream[h] # <<>>
        /\ Head(daemon_stream[h]).kind = "MutexWriteAndRelease"

\* Rank a is inside a blocking send to rank b.
SendingTo(a, b) ==
    /\ ppc[a] = "send"
    /\ sendops[a][Len(sendops[a])].dest = b

\* C28: a blocking send returns only after a receive at its destination has
\* taken the send's announce out of readers and connected to the send's
\* op_listener; two ranks that are each inside a blocking send to the other
\* stay there for ever.
C28_SendSynchronous ==
    /\ [][\A s \in Ranks : (ppc[s] = "send" /\ ppc'[s] # "send") =>
            LET n == Len(sendops[s])
                op == sendops[s][n]
            IN  /\ op.peer = op.dest
                /\ ppc[op.dest] = "recv"
                /\ parg[op.dest].addr = OpAddr(s, n)
                /\ readers[op.dest][<<s, op.id>>] # <<OpAddr(s, n)>>]_vars
    /\ [][\A a, b \in Ranks :
            (a # b /\ SendingTo(a, b) /\ SendingTo(b, a)) =>
                (SendingTo(a, b) /\ SendingTo(b, a))']_vars

\* Witness: the send of one rank has returned, served to the receive of a second,
\* which then went into a send to a third while the third is inside a send to
\* it; both announces are in readers and neither rank will ever receive.
C28_Witness ==
    \E a, b, c \in Ranks :
        /\ a # b /\ a # c /\ b # c
        /\ sendops[c] # <<>> /\ sendops[c][1].state = "done" /\ sendops[c][1].peer = a
        /\ SendingTo(a, b) /\ SendingTo(b, a)
        /\ readers[b][<<a, 0>>] = <<OpAddr(a, 1)>>
        /\ readers[a][<<b, 0>>] = <<OpAddr(b, 1)>>

\* The receive operations of rank d: the i-th call of receive /
\* receive_any_source on the main thread is <<"main", i>>, the n-th thread of
\* receive_nb is <<"nb", n>>.
\* Those that have obtained the transfer address a:
Consumers(d, a) ==
    {<<"main", i>> : i \in {i \in DOMAIN rlog[d] : rlog[d][i].value = sendops[a[2]][a[3]].data}}
    \cup (IF ppc[d] = "recv" /\ parg[d].addr = a THEN {<<"main", Len(rlog[d]) + 1>>} ELSE {})
    \cup {<<"nb", n>> : n \in {n \in DOMAIN recvops[d] : recvops[d][n].addr = <<a>>}}

\* Those that are polling readers:
Pollers(d) ==
    (IF ppc[d] = "poll" THEN {<<"main", Len(rlog[d]) + 1>>} ELSE {})
    \cup {<<"nb", n>> : n \in {n \in DOMAIN recvops[d] : recvops[d][n].state = "poll"}}

\* C29: no announce is consumed by two receive operations of a client, and the
\* step that takes an entry out of readers gives its address to exactly one of
\* the polling receive operations (main thread or receive_nb thread) while all
\* the others keep polling.
C29_AtomicTake ==
    /\ [](\A d, s \in Ranks : \A n \in DOMAIN sendops[s] :
            Cardinality(Consumers(d, OpAddr(s, n))) <= 1)
    /\ [][\A d, s \in Ranks : \A n \in DOMAIN sendops[s] : \A k \in Keys :
            (readers[d][k] = <<OpAddr(s, n)>> /\ readers'[d][k] = <<>>) =>
                /\ Consumers(d, OpAddr(s, n)) = {}
                /\ Cardinality(Consumers(d, OpAddr(s, n))') = 1
                /\ Consumers(d, OpAddr(s, n))' \subseteq Pollers(d)
                /\ Pollers(d)' = Pollers(d) \ Consumers(d, OpAddr(s, n))']_vars

\* Witness: two threads of receive_nb and the main thread's receive_any_source
\* of rank 0 polled for the announce of one send; the second thread has its
\* address, the first thread and the main thread are still polling.
C29_Witness ==
    \E s \in Ranks \ {0} :
        /\ Len(recvops[0]) = 2
        /\ recvops[0][1].source = s /\ recvops[0][1].state = "poll"
        /\ recvops[0][2].source = s /\ recvops[0][2].addr = <<OpAddr(s, 1)>>
        /\ ppc[0] = "poll" /\ parg[0].any
        /\ \A k \in Keys : readers[0][k] = <<>>

\* The send operations of rank s that wait in op_listener.accept() at address a,
\* no receiver connected yet. Every op_listener is bound to a port of its own.
Accepting(s, a) ==
    {n \in DOMAIN sendops[s] :
        OpAddr(s, n) = a /\ sendops[s][n].state = "accept" /\ sendops[s][n].peer = None}

\* C30: for every entry (sender, tag) -> addr in the readers of a client there
\* is exactly one send operation of rank `sender`, a send to that client with
\* that tag, that waits in accept() on the op_listener at addr.
C30_PendingTable ==
    \A d \in Ranks : \A k \in Keys :
        readers[d][k] # <<>> =>
            LET a == Head(readers[d][k])
            IN  /\ Cardinality(Accepting(k[1], a)) = 1
                /\ \A n \in Accepting(k[1], a) :
                      sendops[k[1]][n].dest = d /\ sendops[k[1]][n].id = k[2]

\* Witness: a rank has issued two send_nb of one key to rank 0, both wait in
\* accept(), and the entry of the key in the readers of rank 0 holds the address
\* of the second, which has replaced that of the first.
C30_Witness ==
    \E s \in Ranks \ {0} :
        /\ Len(sendops[s]) = 2
        /\ sendops[s][1].id = sendops[s][2].id
        /\ sendops[s][1].state = "accept" /\ sendops[s][2].state = "accept"
        /\ peer_incoming[0] = <<>> /\ lstream[0] = <<>>
        /\ readers[0][<<s, sendops[s][1].id>>] = <<OpAddr(s, 2)>>

\* The main thread of rank d takes an entry in this step, for a receive of key k
\* (receive) or of the tag of k (receive_any_source).
MainTakes(d, k) ==
    /\ ppc[d] = "poll" /\ ppc'[d] = "recv"
    /\ IF parg[d].any THEN k[2] = parg[d].id ELSE k = <<parg[d].source, parg[d].id>>

\* A thread of receive_nb of rank d takes the entry of key k in this step.
NbTakes(d, k) ==
    \E n \in DOMAIN recvops[d] :
        /\ recvops[d][n].state = "poll" /\ recvops'[d][n].state = "recv"
        /\ k = <<recvops[d][n].source, recvops[d][n].id>>

\* C31: an entry of readers appears or changes only when the listener thread
\* inserts the announce it has read, under the announce's key; it disappears
\* only in the take of a receive that matches its key, and receive(source, tag)
\* removes the entry of (source, tag) and leaves every other entry as it is. An
\* entry no receive matches therefore stays.
C31_PendingTableFrame ==
    [][\A d \in Ranks :
        /\ \A k \in Keys :
            /\ (readers'[d][k] # readers[d][k] /\ readers'[d][k] # <<>>) =>
                    /\ lstream[d] # <<>> /\ lstream'[d] = <<>>
                    /\ LET op_pkt == Head(OpPktOf(Head(lstream[d])))
                       IN  /\ k = <<op_pkt.client_id, op_pkt.op_id>>
                           /\ readers'[d][k] = <<op_pkt.addr>>
            /\ (readers[d][k] # <<>> /\ readers'[d][k] = <<>>) =>
                    (MainTakes(d, k) \/ NbTakes(d, k))
        /\ (ppc[d] = "poll" /\ ppc'[d] = "recv" /\ ~parg[d].any) =>
                /\ readers[d][<<parg[d].source, parg[d].id>>] # <<>>
                /\ readers'[d] = [readers[d] EXCEPT ![<<parg[d].source, parg[d].id>>] = <<>>]
        /\ readers'[d] # readers[d] => \A e \in Ranks \ {d} : readers'[e] = readers[e]]_vars

\* Witness: receive(source, tag) of rank 0 has taken its entry and is reading
\* while the entry of another key is still in readers.
C31_Witness ==
    /\ ppc[0] = "recv" /\ ~parg[0].any
    /\ readers[0][<<parg[0].source, parg[0].id>>] = <<>>
    /\ \E k \in Keys : readers[0][k] # <<>>

\* The listener thread of rank d finishes an announce in this step.
Inserts(d) == lstream[d] # <<>> /\ lstream'[d] = <<>>

\* C32: a key of readers holds at most one address, and when the listener
\* thread has read an announce its key maps to the announce's address, whether
\* or not the key was present and to whatever address; the listener goes on to
\* its next connection and no other entry changes.
C32_DuplicateOverwrites ==
    /\ [](\A d \in Ranks : \A k \in Keys : Len(readers[d][k]) <= 1)
    /\ [][\A d \in Ranks : Inserts(d) =>
            LET op_pkt == Head(OpPktOf(Head(lstream[d])))
            IN  readers'[d] = [readers[d] EXCEPT
                                  ![<<op_pkt.client_id, op_pkt.op_id>>] = <<op_pkt.addr>>]]_vars

\* Witness: two send_nb of one rank with one key wait in accept(); the thread of
\* the second connected first, so the announce of the first arrived last and the
\* entry, which held the address of the second, now holds that of the first.
C32_Witness ==
    \E s \in Ranks \ {0} :
        /\ Len(sendops[s]) = 2
        /\ sendops[s][1].id = sendops[s][2].id
        /\ sendops[s][1].state = "accept" /\ sendops[s][2].state = "accept"
        /\ sendops[s][1].peer = None /\ sendops[s][2].peer = None
        /\ peer_incoming[0] = <<>> /\ lstream[0] = <<>>
        /\ readers[0][<<s, sendops[s][1].id>>] = <<OpAddr(s, 1)>>

\* The n-th operation of rank s is a send_nb whose announce the listener of its
\* destination has read and which another announce of the same key has replaced
\* in readers before any receive took it.
Overwritten(s, n) ==
    /\ n \in DOMAIN sendops[s]
    /\ LET op == sendops[s][n]
       IN  /\ op.nb /\ op.state = "accept" /\ op.peer = None
           /\ \A i \in DOMAIN peer_incoming[op.dest] : peer_incoming[op.dest][i] # OpAddr(s, n)
           /\ lstream[op.dest] # <<OpAddr(s, n)>>
           /\ readers[op.dest][<<s, op.id>>] # <<OpAddr(s, n)>>

\* The receives of rank d that have returned the payload of a send of rank s
\* with tag id.
Served(d, s, id) ==
    {i \in DOMAIN rlog[d] :
        \E n \in DOMAIN sendops[s] :
            sendops[s][n].id = id /\ sendops[s][n].dest = d /\ rlog[d][i].value = sendops[s][n].data}

\* The sends of rank s to rank d with tag id, and those of them that are lost.
SendsOf(d, s, id) ==
    {n \in DOMAIN sendops[s] : sendops[s][n].id = id /\ sendops[s][n].dest = d}
LostOf(d, s, id) == {n \in SendsOf(d, s, id) : Overwritten(s, n)}

\* C33: a send_nb whose announce has been replaced by a later one of the same
\* key stays blocked in accept() in every later state, data() on its handle has
\* not returned, and the receives of its destination that have completed with a
\* payload of that key are at most the sends of the key that are not lost: at
\* most one of two.
C33_OverwrittenSendLost ==
    /\ [](\A s \in Ranks : \A n \in 1 .. MaxMsgs :
            Overwritten(s, n) =>
                LET d == sendops[s][n].dest
                    id == sendops[s][n].id
                IN  /\ \A i \in DOMAIN nblog[s] : nblog[s][i].op # n
                    /\ Cardinality(Served(d, s, id)) + Cardinality(LostOf(d, s, id))
                          <= Cardinality(SendsOf(d, s, id)))
    /\ [][\A s \in Ranks : \A n \in 1 .. MaxMsgs :
            Overwritten(s, n) => Overwritten(s, n)']_vars

\* Witness: the announce of a send_nb has been replaced, the sender waits in
\* data() on its handle, rank 0 has received the payload of the other send of
\* the key and polls in a second receive of that key.
C33_Witness ==
    \E s \in Ranks \ {0} : \E n \in 1 .. MaxMsgs :
        /\ Overwritten(s, n)
        /\ ppc[s] = "join" /\ parg[s].op = n
        /\ Cardinality(SendsOf(0, s, sendops[s][n].id)) = 2
        /\ Cardinality(Served(0, s, sendops[s][n].id)) = 1
        /\ ppc[0] = "poll" /\ ~parg[0].any
        /\ parg[0].source = s /\ parg[0].id = sendops[s][n].id

\* C34: a mutex that is in the coordinator's map is in it after every step, and
\* once its `constructed` is true it is true after every step, whichever
\* packet a handler processes.
C34_ConstructedMonotonic ==
    [][\A n \in DOMAIN mutexes :
        /\ n \in DOMAIN mutexes'
        /\ mutexes[n].constructed => mutexes'[n].constructed]_vars

\* Witness: on a constructed mutex that has been granted at least once, a handler
\* has registered the repeated MutexCreation of its rank.
C34_Witness ==
    \E r \in Ranks : \E n \in DOMAIN mutexes :
        /\ mutexes[n].constructed
        /\ grantlog[n] # <<>>
        /\ hpc[r] = "mc_wait" /\ hname[r] = n /\ csent[r][n] = 2 /\ crepl[r][n] = 1

\* C35: when every rank has sent its Finalize packet and the coordinator process
\* has exited, the FinalizeReply of every rank has been written to its control
\* connection.
C35_RepliesBeforeExit ==
    (run_pc = "exited" /\ \A s \in Ranks : fsent[s] = 1) => \A r \in Ranks : frepl[r] = 1

\* C36: a collective reply is written to a rank only if all ranks have
\* registered for the collective it answers: a MutexCreationReply for a name
\* only if every rank has sent MutexCreation for that name, the k-th
\* BarrierReply of a rank only if every rank has sent its k-th Barrier packet,
\* a FinalizeReply only if every rank has sent Finalize. (Handlers that meet at
\* the rendezvous in different collectives would then never cause a reply.)
C36_ReplyOnlyForSameCollective ==
    [][\A r \in Ranks :
        /\ \A n \in Names :
              crepl'[r][n] > crepl[r][n] => \A s \in Ranks : csent[s][n] >= 1
        /\ brepl'[r] > brepl[r] => \A s \in Ranks : bsent[s] >= brepl'[r]
        /\ frepl'[r] > frepl[r] => \A s \in Ranks : fsent[s] >= 1]_vars

\* The handler of rank r processes a MutexWriteAndRelease packet for an existing
\* mutex in this step.
Releases(r) ==
    /\ Receives(r, "MutexWriteAndRelease")
    /\ Head(daemon_stream[r]).name \in DOMAIN mutexes
    /\ daemon_stream'[r] = Tail(daemon_stream[r])

\* C37: a MutexWriteAndRelease processed while the mutex is not locked leaves
\* the mutex (data, locked, current_owner, access_queue) as it was and writes
\* nothing to any control connection.
C37_UnlockedReleaseRejected ==
    [][\A r \in Ranks :
        (Releases(r) /\ ~mutexes[Head(daemon_stream[r]).name].locked) =>
            /\ mutexes'[Head(daemon_stream[r]).name] = mutexes[Head(daemon_stream[r]).name]
            /\ stream' = stream]_vars

\* Every rank but rank 0 has received the message of rank 0, and every send of
\* rank 0 has returned.
StartupDone ==
    /\ \A r \in Ranks : Started(r) /\ ppc[r] = "idle"
    /\ Len(sendops[0]) = job_size - 1
    /\ \A n \in DOMAIN sendops[0] : sendops[0][n].state = "done"
    /\ \A r \in Ranks \ {0} :
            rlog[r] = <<[source |-> 0, id |-> 0, any |-> FALSE, value |-> Payload(0, r)]>>

\* The announces that wait for rank d: in connections its listener has not
\* accepted yet, in the connection it reads, or in its pending table.
AnnouncesAt(d) ==
    {peer_incoming[d][i] : i \in DOMAIN peer_incoming[d]}
        \cup {lstream[d][i] : i \in DOMAIN lstream[d]}
        \cup UNION {{readers[d][k][i] : i \in DOMAIN readers[d][k]} : k \in Keys}

\* C38: no announce is lost around registration. The listener of a rank is
\* bound before the rank registers, so no send of a registered rank is refused,
\* and the connection of an announce to a rank that has not returned from init
\* is kept until its listener thread accepts it: every send that has announced
\* and is not served yet has its announce waiting at the destination, and under
\* fair scheduling every rank receives the message rank 0 sent to it.
C38_NoAnnounceLost ==
    /\ [](\A s \in Ranks : \A n \in DOMAIN sendops[s] :
            /\ sendops[s][n].state # "refused"
            /\ sendops[s][n].state = "connected" => OpAddr(s, n) \in AnnouncesAt(sendops[s][n].dest)
            /\ (sendops[s][n].state = "accept" /\ sendops[s][n].peer = None) =>
                    OpAddr(s, n) \in AnnouncesAt(sendops[s][n].dest))
    /\ <>[]StartupDone

\* The send of rank 0 to rank 2 has connected to the listener of rank 2 while
\* rank 2 has not got its registration reply yet.
C38_Witness ==
    /\ Len(sendops[0]) = 2
    /\ sendops[0][2].state \in {"connected", "accept"}
    /\ ~Started(2)
    /\ registered[ProcOf(2)] = <<>> /\ reg_reply[ProcOf(2)] = <<>>
    /\ OpAddr(0, 2) \in AnnouncesAt(2)

\* The test of the non-blocking operations has ended: every call has returned,
\* rank 0 has its buffer back, rank 1 has the string and then the buffer.
NbDone ==
    /\ \A r \in Ranks : ppc[r] = "idle"
    /\ Len(sendops[0]) = 2 /\ \A n \in {1, 2} : sendops[0][n].state = "done"
    /\ handles[0] = {}
    /\ nblog[0] = <<[op |-> 1, value |-> Payload(0, 1)]>>
    /\ Len(recvops[1]) = 1 /\ recvops[1][1].state = "joined"
    /\ rlog[1] = <<[source |-> 0, id |-> 1, any |-> FALSE, value |-> Payload(0, 2)],
                   [source |-> 0, id |-> 0, any |-> FALSE, value |-> Payload(0, 1)]>>

\* C39: in the test of the non-blocking operations every operation completes in
\* every fair interleaving, whichever of the two transfers is served first:
\* data() on the handle of send_nb gives rank 0 its buffer back, receive gives
\* rank 1 the string s and data() on the handle of receive_nb gives it the
\* buffer; nothing else is ever returned to either rank.
C39_NonBlockingCompletes ==
    /\ [](\A k \in DOMAIN nblog[0] : nblog[0][k] = [op |-> 1, value |-> Payload(0, 1)])
    /\ [](\A k \in DOMAIN rlog[1] :
            /\ rlog[1][k].source = 0
            /\ rlog[1][k].value = Payload(0, rlog[1][k].id + 1))
    /\ [](\A r \in Ranks \ {0} : nblog[r] = <<>>)
    /\ [](\A r \in Ranks \ {1} : rlog[r] = <<>>)
    /\ <>[]NbDone

\* The blocking send, issued second, has returned and rank 1 has the string
\* while the thread of send_nb, issued first, has not connected yet and the
\* thread of receive_nb still polls.
C39_Witness ==
    /\ Len(sendops[0]) = 2
    /\ sendops[0][2].state = "done" /\ sendops[0][1].state = "called"
    /\ ppc[0] = "idle" /\ ppc[1] = "idle"
    /\ Len(rlog[1]) = 1 /\ rlog[1][1].value = Payload(0, 2)
    /\ recvops[1][1].state = "poll"

\* What rank r has received when its halo exchange has ended: the line of the
\* next rank (that rank's last send) and then the line of the rank before (that
\* rank's first send).
HaloReceived(r) ==
    (IF r < job_size - 1
     THEN <<[source |-> r + 1, id |-> 1, any |-> FALSE,
             value |-> Payload(r + 1, IF r + 1 < job_size - 1 THEN 2 ELSE 1)]>>
     ELSE <<>>)
    \o (IF r > 0
        THEN <<[source |-> r - 1, id |-> 2, any |-> FALSE, value |-> Payload(r - 1, 1)]>>
        ELSE <<>>)

\* Every rank has made all the calls of its halo exchange and all have returned.
HaloDone ==
    \A r \in Ranks :
        /\ ppc[r] = "idle"
        /\ pstep[r] = Len(Halo(r))
        /\ \A n \in DOMAIN sendops[r] : sendops[r][n].state = "done"
        /\ rlog[r] = HaloReceived(r)

\* C40: the halo exchange along the chain of ranks does not deadlock: a state
\* from which no thread of any rank can take a step is the state in which every
\* rank has completed its exchange, and under fair scheduling that state is
\* reached and every rank has the lines of its neighbours.
C40_HaloDeadlockFree ==
    /\ []((~ENABLED NextHalo) => HaloDone)
    /\ [](\A r \in Ranks : \A k \in DOMAIN rlog[r] : rlog[r][k] = HaloReceived(r)[k])
    /\ <>[]HaloDone

\* Every rank below the last is inside its send to the next rank, each waiting
\* for a receive that its neighbour calls only after its own send; the last
\* rank has not called its receive yet.
C40_Witness ==
    /\ \A r \in Ranks : r < job_size - 1 =>
            ppc[r] = "send" /\ sendops[r][1].state = "accept" /\ sendops[r][1].peer = None
    /\ ppc[job_size - 1] = "idle" /\ pstep[job_size - 1] = 0

\* C19: when every rank sends exactly one Finalize packet, every rank is sent
\* exactly one FinalizeReply, and none before all ranks have sent their Finalize
\* packet. A handler writes the reply at one place of its Finalize arm only, so
\* a handler that has left that place without a reply never sends one.
C19_Finalization ==
    /\ \A r \in Ranks : frepl[r] <= 1 /\ fret[r] <= frepl[r]
    /\ \A r, s \in Ranks : frepl[r] >= 1 => fsent[s] = 1
    /\ (\A s \in Ranks : fsent[s] = 1) =>
          \A r \in Ranks : hpc[r] \in {"f_wait2", "done", "exited"} => frepl[r] = 1

\* C20: the coordinator process exits only when all handler threads have
\* terminated: at the step that exits, every handle_client has returned.
C20_ExitAfterAllJoined ==
    [][(run_pc # "exited" /\ run_pc' = "exited") => \A r \in Ranks : hpc[r] = "done"]_vars

====
